---------------------------- MODULE Spec2Model ----------------------------
(***************************************************************************)
(* A model of src/src/App.tsx (ImageCropperApp): the ingestion pipeline    *)
(* (processFiles, validateImage, handleDelete), the crop state manager     *)
(* (openCropModal, handleCropEvent, handleCrop, handleCancel) and the      *)
(* pure conversions of the crop coordinate engine.                         *)
(*                                                                         *)
(* Numbers that the crop surface reports may be fractional.  They are kept *)
(* as integers in units of 1/Scale pixel, so an integral pixel value is a  *)
(* multiple of Scale and Math.round is Round below.                        *)
(***************************************************************************)
EXTENDS Integers, Sequences, FiniteSets, TLC

VARIABLES
  images,                \* useState<ImageData[]>            (line 428)
  isProcessing,          \* useState(false)                  (line 443)
  processingTimeoutRef,  \* is the ref non-null              (line 454)
  debounce,              \* the pending debounce timer with its closure (0 or 1)
  batch,                 \* frame of the running timer callback (lines 702-828)
  fadePending,           \* a setTimeout(() => setIsProcessing(false), FADE_OUT) is pending
  toastQueue,            \* pending setTimeout(() => messages.forEach(toast), TOAST_DELAY)
  toasts,                \* notices shown by the notification channel
  now,                   \* Date.now()
  nCalls,                \* processFiles calls made so far (bounded by MaxCalls)
  nDeletes,              \* deletions made so far (bounded by MaxDeletes)
  menu,                  \* the family of batches the user delivers in this behaviour
  removed,               \* records deleted since the last accepted processFiles call
  currentImage,          \* useState<ImageData | null>       (line 429)
  activeCropSettings,    \* useState<CropSettings>           (line 430)
  globalCropSettings,    \* useState<CropSettings | null>    (line 437)
  isPerImageCrop,        \* useState(true)                   (line 438)
  originalDimensions,    \* useState<{width,height} | null>  (line 439)
  selectedAspectRatio,   \* useState('free')                 (line 444)
  saveOnCancel,          \* useState(false)                  (line 447)
  initialCropSettings,   \* useState<CropSettings | null>    (line 448)
  isOpen,                \* useDisclosure().isOpen           (line 457)
  opening,               \* the Image whose load openCropModal awaits (0 or 1)
  cropper,               \* the crop surface held by cropperRef
  crop,                  \* frame of the handleCrop call awaiting canvas.toBlob (0 or 1)
  nOpens,                \* editor openings so far (bounded by MaxOpens)
  nCrops,                \* handleCrop calls so far (bounded by MaxCrops)
  edit,                  \* n: edits of the editor's fields so far (bounded by MaxEdits),
                         \* log: those made in the editor that is open, left: the
                         \* store of the mode not in force, as it was when the
                         \* policy was last switched
  objectUrlsToCleanup,   \* useRef<string[]>([])             (line 455)
  blobUrls,              \* the platform's object URLs: live are created and not revoked,
                         \* again are those revoked while not live, late are the probe
                         \* URLs whose image may still fire an event after its timeout
  mounted,               \* is the component mounted
  lastOp,                \* the handler step that produced this state
  conv                   \* operands of the pure conversions under check

ingestVars == <<images, isProcessing, processingTimeoutRef, debounce, batch,
                fadePending, toastQueue, toasts, now, nCalls, nDeletes, menu, removed>>
editorVars == <<currentImage, activeCropSettings, globalCropSettings, isPerImageCrop,
                originalDimensions, selectedAspectRatio, saveOnCancel,
                initialCropSettings, isOpen, opening, cropper, crop, nOpens, nCrops, edit>>
resourceVars == <<objectUrlsToCleanup, blobUrls, mounted>>
vars == <<ingestVars, editorVars, resourceVars, lastOp, conv>>

----------------------------------------------------------------------------
(* Program constants *)

MAX_IMAGES == 10
IMAGE_SIZE_MIN == 16
IMAGE_SIZE_MAX == 10000
CROP_SIZE_MIN == 1
CROP_SIZE_MAX == 9999
MAX_FILE_SIZE == 10485760

ACCEPTED_TYPES ==
  [t \in {"image/jpeg", "image/png", "image/gif", "image/webp"} |->
     CASE t = "image/jpeg" -> {<<".", "jpg">>, <<".", "jpeg">>}
       [] t = "image/png"  -> {<<".", "png">>}
       [] t = "image/gif"  -> {<<".", "gif">>}
       [] t = "image/webp" -> {<<".", "webp">>}]

(* Bounds of the model *)

MaxStem == 11      \* distinct well-formed file names a.png, b.png, ...
MaxSmall == 2      \* length of the batches drawn from OddFiles
MaxCalls == 2      \* processFiles calls per behaviour
MaxDeletes == 1    \* handleDelete calls per behaviour
MaxTime == 1       \* Date.now() ranges over 0..MaxTime
Slack == 1         \* the runs of files have lengths within Slack of MaxStem

Scale == 2         \* sub-pixel resolution: numbers are in units of 1/Scale px
MaxOpens == 2      \* openCropModal calls per behaviour
MaxCrops == 2      \* handleCrop calls per behaviour
MaxExtent == 12    \* extents 1..MaxExtent given to the size conversions
MaxEdits == 1      \* edits of a field (number or ratio) per behaviour

Max(a, b) == IF a >= b THEN a ELSE b
Min(a, b) == IF a <= b THEN a ELSE b
Abs(a) == IF a >= 0 THEN a ELSE 0 - a
Range(seq) == {seq[i] : i \in 1..Len(seq)}
Count(r, seq) == Cardinality({i \in 1..Len(seq) : seq[i] = r})
Last(seq) == seq[Len(seq)]

----------------------------------------------------------------------------
(* File names are sequences of tokens: a run of letters, or the dot. *)

Alphabet == <<"a", "b", "c", "d", "e", "f", "g", "h", "i", "j", "k", "l", "m", "n">>
TokenOrder == <<".">> \o Alphabet \o <<"jpg", "JPG", "png", "txt">>

TokenRank(tok) == CHOOSE i \in 1..Len(TokenOrder) : TokenOrder[i] = tok

\* String.prototype.toLowerCase on one token
ToLowerCase(tok) == IF tok = "JPG" THEN "jpg" ELSE tok

\* String.prototype.lastIndexOf('.') as a token position, 0 when there is none
LastDot(name) ==
  LET dots == {i \in 1..Len(name) : name[i] = "."}
  IN IF dots = {} THEN 0 ELSE CHOOSE i \in dots : \A j \in dots : j <= i

\* getFileExtension: ((lastIndexOf('.') - 1) >>> 0) + 2 lies past the end of the
\* name when there is no dot (-1) or the dot leads the name (0), so the slice is
\* empty; otherwise the slice starts right after the last dot.
getFileExtension(name) ==
  LET p == LastDot(name)
  IN IF p <= 1 THEN <<>>
     ELSE [i \in 1..(Len(name) - p) |-> ToLowerCase(name[p + i])]

\* a.file.name.localeCompare(b.file.name) < 0, token by token
RECURSIVE LocaleLess(_, _)
LocaleLess(a, b) ==
  IF b = <<>> THEN FALSE
  ELSE IF a = <<>> THEN TRUE
  ELSE IF Head(a) = Head(b) THEN LocaleLess(Tail(a), Tail(b))
  ELSE TokenRank(Head(a)) < TokenRank(Head(b))

\* images.sort((a, b) => a.file.name.localeCompare(b.file.name)) of the render
\* (line 1501): Array.prototype.sort is stable and sorts the state array in place.
RECURSIVE InsertByName(_, _)
InsertByName(sorted, img) ==
  IF sorted = <<>> THEN <<img>>
  ELSE IF LocaleLess(img.file.name, Head(sorted).file.name)
       THEN <<img>> \o sorted
       ELSE <<Head(sorted)>> \o InsertByName(Tail(sorted), img)

RECURSIVE SortByName(_)
SortByName(imgs) ==
  IF imgs = <<>> THEN <<>>
  ELSE InsertByName(SortByName(SubSeq(imgs, 1, Len(imgs) - 1)), imgs[Len(imgs)])


----------------------------------------------------------------------------
(* Input files.  decode is what the platform's image decoder does with the *)
(* file: fire onload with the natural size (probe: whether the 1x1         *)
(* draw-and-read succeeds), fire onerror, or fire nothing before the 10 s  *)
(* timeout.                                                                *)

Loads(w, h, ok) == [ev |-> "load", width |-> w, height |-> h, probe |-> ok]
Fails == [ev |-> "error", width |-> 0, height |-> 0, probe |-> FALSE]
Hangs == [ev |-> "hang", width |-> 0, height |-> 0, probe |-> FALSE]

PngName(i) == <<Alphabet[i], ".", "png">>

GoodFile(i) ==
  [name |-> PngName(i), type |-> "image/png", size |-> 1024,
   decode |-> Loads(IMAGE_SIZE_MIN, IMAGE_SIZE_MIN + 4, TRUE)]

\* Another file of the same name, as a second folder may hold
OtherCopy(i) == [GoodFile(i) EXCEPT !.size = 2048]

\* Files that each exercise one stage of the pipeline: the type, size and
\* extension filter, and the validator
TypeFiles ==
  { GoodFile(1),
    OtherCopy(1),
    [GoodFile(1) EXCEPT !.name = <<"a", ".", "txt">>, !.type = "text/plain"],
    [GoodFile(2) EXCEPT !.size = MAX_FILE_SIZE + 1],
    [GoodFile(1) EXCEPT !.name = <<"a", ".", "JPG">>] }

DecodeFiles ==
  { GoodFile(1),
    [GoodFile(3) EXCEPT !.decode = Loads(IMAGE_SIZE_MIN - 1, IMAGE_SIZE_MIN, TRUE)],
    [GoodFile(3) EXCEPT !.decode = Loads(IMAGE_SIZE_MIN, IMAGE_SIZE_MAX + 1, TRUE)],
    [GoodFile(3) EXCEPT !.decode = Loads(IMAGE_SIZE_MAX, IMAGE_SIZE_MAX, FALSE)],
    [GoodFile(3) EXCEPT !.decode = Fails],
    [GoodFile(3) EXCEPT !.decode = Hangs] }

RangeBatch(lo, hi) == [i \in 1..(hi - lo + 1) |-> GoodFile(lo + i - 1)]

SeqsUpTo(S, n) == UNION {[1..k -> S] : k \in 0..n}

\* A batch of which the type and size filter passes no file
FilteredBatch ==
  << [GoodFile(1) EXCEPT !.name = <<"a", ".", "txt">>, !.type = "text/plain"],
     [GoodFile(2) EXCEPT !.size = MAX_FILE_SIZE + 1] >>

\* A batch of one file more than a session holds, of which the first is an
\* image below the minimum dimensions
UndersizedBatch ==
  << [GoodFile(MaxStem) EXCEPT !.decode = Loads(IMAGE_SIZE_MIN - 1, IMAGE_SIZE_MIN, TRUE)] >>
    \o RangeBatch(1, MaxStem - Slack)

\* The batches a drop or a file selection may deliver: runs of well-formed
\* files that fill the session up to and beyond MAX_IMAGES, a batch that the
\* filter would stop and a batch beyond MAX_IMAGES with an undersized image, or
\* short batches of files that each exercise one stage.
RangeBatches ==
  {RangeBatch(1, hi) : hi \in (MaxStem - Slack)..MaxStem}
    \cup {RangeBatch(lo, MaxStem) : lo \in (MaxStem - Slack + 1)..MaxStem}
    \cup {FilteredBatch, UndersizedBatch}
\* The batches that lead the timer callback to each of its ends and through
\* each stage: one file, which a second delivery repeats; three files, of which
\* the first may be in the session by then; a batch that the filter stops; a
\* file whose extension is not one of its type, with one that is admitted; an
\* undersized image with one that fails to decode; an image that cannot be
\* drawn; and a file whose decoding never ends.  In a session that holds
\* MAX_IMAGES images each of them meets the limit.
ExitBatches ==
  { <<GoodFile(1)>>,
    <<GoodFile(1), GoodFile(2), GoodFile(4)>>,
    FilteredBatch,
    << [GoodFile(1) EXCEPT !.name = <<"a", ".", "JPG">>], GoodFile(1) >>,
    << [GoodFile(3) EXCEPT !.decode = Loads(IMAGE_SIZE_MIN - 1, IMAGE_SIZE_MIN, TRUE)],
       [GoodFile(3) EXCEPT !.decode = Fails] >>,
    << [GoodFile(3) EXCEPT !.decode = Loads(IMAGE_SIZE_MAX, IMAGE_SIZE_MAX, FALSE)] >>,
    << [GoodFile(3) EXCEPT !.decode = Hangs] >> }

Menus == {"ranges", "types", "decodes"}
Batches ==
  CASE menu = "ranges" -> RangeBatches
    [] menu = "types" -> SeqsUpTo(TypeFiles, MaxSmall)
    [] menu = "decodes" -> SeqsUpTo(DecodeFiles, MaxSmall)
    [] menu = "exits" -> ExitBatches

\* While isProcessing is set processFiles returns before it reads its files
\* (line 691): there one batch stands for all.
Offered ==
  IF isProcessing THEN {CHOOSE b \in Batches : Len(b) > 0} ELSE Batches \cup {<<>>}

----------------------------------------------------------------------------
(* Notices: createToastMessage (lines 469-559).  title and description are *)
(* kept as the message type and the parameters the description is built    *)
(* from; a 'limit' message is the partial form iff params.ignored is given.*)

Message(type, status) ==
  [type |-> type, status |-> status, partial |-> FALSE, count |-> 0, added |-> 0,
   ignored |-> 0, filename |-> <<>>, mimeType |-> ""]

AtLimitMessage(count) == [Message("limit", "warning") EXCEPT !.count = count]
PartialMessage(added, ignored) ==
  [Message("limit", "warning") EXCEPT !.partial = TRUE, !.added = added, !.ignored = ignored]
DuplicateMessage(count) == [Message("duplicate", "warning") EXCEPT !.count = count]
InvalidTypeMessage(count) == [Message("invalid-type", "warning") EXCEPT !.count = count]
FileSizeMessage(name) == [Message("file-size", "warning") EXCEPT !.filename = name]
MimeMismatchMessage(name, type) ==
  [Message("mime-mismatch", "warning") EXCEPT !.filename = name, !.mimeType = type]
InvalidDimensionsMessage(count) ==
  [Message("invalid-dimensions", "warning") EXCEPT !.count = count]
InvalidImageMessage(count) == [Message("invalid-image", "error") EXCEPT !.count = count]
LoadErrorMessage == Message("load-error", "error")

----------------------------------------------------------------------------
(* The stages of the timer callback of processFiles that run before the    *)
(* first await.  closureImages is the images array the callback closed     *)
(* over, i.e. the one of the render in which processFiles was called.      *)

\* Mutant: a full Session is taken to have one slot
RemainingSlots_OneLeft(closureImages) == Max(1, MAX_IMAGES - Len(closureImages))

\* remainingSlots (line 710)
RemainingSlots(closureImages) == Max(0, MAX_IMAGES - Len(closureImages))

\* existingFilenames (line 467), as closed over by the callback
ExistingFilenames(closureImages) ==
  {closureImages[i].file.name : i \in 1..Len(closureImages)}

\* Mutant: the filter does not compare the extension with the declared type
TypeVerdict_NoExtension(f) ==
  IF f.type \notin DOMAIN ACCEPTED_TYPES THEN "type"
  ELSE IF f.size > MAX_FILE_SIZE THEN "size"
  ELSE "ok"

\* The predicate of files.filter (lines 719-737) on one file
TypeVerdict(f) ==
  IF f.type \notin DOMAIN ACCEPTED_TYPES THEN "type"
  ELSE IF f.size > MAX_FILE_SIZE THEN "size"
  ELSE IF (<<".">> \o getFileExtension(f.name)) \notin ACCEPTED_TYPES[f.type] THEN "mismatch"
  ELSE "ok"

\* The messages files.filter pushes, in file order
RECURSIVE TypeMessages(_)
TypeMessages(files) ==
  IF files = <<>> THEN <<>>
  ELSE LET f == Head(files)
           v == TypeVerdict(f)
       IN (IF v = "size" THEN <<FileSizeMessage(f.name)>>
           ELSE IF v = "mismatch" THEN <<MimeMismatchMessage(f.name, f.type)>>
           ELSE <<>>) \o TypeMessages(Tail(files))

IsImageFile(f) == TypeVerdict(f) = "ok"
ImageFiles(files) == SelectSeq(files, IsImageFile)

\* Mutant: the duplicate filter lets every file through
NonDuplicateFiles_NoFilter(imageFiles, closureImages) == imageFiles

\* imageFiles.filter((file) => !existingFilenames.has(file.name)) (line 750)
NonDuplicateFiles(imageFiles, closureImages) ==
  LET fresh(f) == f.name \notin ExistingFilenames(closureImages)
  IN SelectSeq(imageFiles, fresh)

\* Mutant: the candidates are not cut to the free slots
FilesToProcess_NoSlice(nonDuplicateFiles, remainingSlots) == nonDuplicateFiles

\* Mutant: the candidates are taken from the end of the list, last first
FilesToProcess_Reversed(nonDuplicateFiles, remainingSlots) ==
  LET n == Min(Len(nonDuplicateFiles), remainingSlots)
  IN [k \in 1..n |-> nonDuplicateFiles[Len(nonDuplicateFiles) + 1 - k]]

\* nonDuplicateFiles.slice(0, remainingSlots) (line 763)
FilesToProcess(nonDuplicateFiles, remainingSlots) ==
  SubSeq(nonDuplicateFiles, 1, Min(Len(nonDuplicateFiles), remainingSlots))

\* Math.max(0, nonDuplicateFiles.length - remainingSlots) (line 764)
IgnoredDueToLimit(nonDuplicateFiles, remainingSlots) ==
  Max(0, Len(nonDuplicateFiles) - remainingSlots)

\* Mutant: only the files of a type that is not accepted are counted
InvalidTypeCount_TypeOnly(files, imageFiles) ==
  Cardinality({k \in 1..Len(files) : files[k].type \notin DOMAIN ACCEPTED_TYPES})

\* invalidTypeCount (line 738)
InvalidTypeCount(files, imageFiles) == Len(files) - Len(imageFiles)

\* Lines 703-780: exit says that the callback returned before the loop; then
\* messages is the list it hands to the toast timer.
Stages(files, closureImages) ==
  LET remainingSlots == RemainingSlots(closureImages)
      imageFiles == ImageFiles(files)
      invalidTypeCount == InvalidTypeCount(files, imageFiles)
      m2 == TypeMessages(files) \o
              (IF invalidTypeCount > 0 THEN <<InvalidTypeMessage(invalidTypeCount)>> ELSE <<>>)
      nonDuplicateFiles == NonDuplicateFiles(imageFiles, closureImages)
      duplicateCount == Len(imageFiles) - Len(nonDuplicateFiles)
      m3 == m2 \o (IF duplicateCount > 0 THEN <<DuplicateMessage(duplicateCount)>> ELSE <<>>)
      filesToProcess == FilesToProcess(nonDuplicateFiles, remainingSlots)
      ignoredDueToLimit == IgnoredDueToLimit(nonDuplicateFiles, remainingSlots)
      out(exit, msgs) ==
        [exit |-> exit, messages |-> msgs, filesToProcess |-> filesToProcess,
         ignoredDueToLimit |-> ignoredDueToLimit]
  IN IF remainingSlots = 0 THEN out(TRUE, <<AtLimitMessage(Len(files))>>)
     ELSE IF invalidTypeCount > 0 /\ Len(imageFiles) = 0 THEN out(TRUE, m2)
     ELSE IF duplicateCount > 0 /\ Len(nonDuplicateFiles) = 0 THEN out(TRUE, m3)
     ELSE IF Len(filesToProcess) = 0
          THEN out(TRUE, m3 \o (IF ignoredDueToLimit > 0
                                THEN <<PartialMessage(Len(filesToProcess), ignoredDueToLimit)>>
                                ELSE <<>>))
     ELSE out(FALSE, m3)

\* Mutant: the bounds themselves are rejected
OnloadResult_Strict(d) ==
  IF d.width <= IMAGE_SIZE_MIN \/ d.height <= IMAGE_SIZE_MIN THEN "too_small"
  ELSE IF d.width >= IMAGE_SIZE_MAX \/ d.height >= IMAGE_SIZE_MAX THEN "too_large"
  ELSE IF ~d.probe THEN "corrupt"
  ELSE "valid"

\* Mutant: the result of the 1x1 draw-and-read is not looked at
OnloadResult_ProbeIgnored(d) ==
  IF d.width < IMAGE_SIZE_MIN \/ d.height < IMAGE_SIZE_MIN THEN "too_small"
  ELSE IF d.width > IMAGE_SIZE_MAX \/ d.height > IMAGE_SIZE_MAX THEN "too_large"
  ELSE "valid"

\* validateImage's img.onload (lines 637-670) on a decoded image
OnloadResult(d) ==
  IF d.width < IMAGE_SIZE_MIN \/ d.height < IMAGE_SIZE_MIN THEN "too_small"
  ELSE IF d.width > IMAGE_SIZE_MAX \/ d.height > IMAGE_SIZE_MAX THEN "too_large"
  ELSE IF ~d.probe THEN "corrupt"
  ELSE "valid"

\* The record processFiles builds for a valid file (lines 788-795)
NoSettings == <<>>
NoCanvasData == <<>>
NewImage(file, time, objectUrl) ==
  [id |-> <<file.name, time>>, file |-> file, url |-> objectUrl, cropped |-> FALSE,
   cropHistory |-> <<>>, cropSettings |-> NoSettings, canvasData |-> NoCanvasData]

\* Mutant: the new record replaces the array
AddImage_Replace(prev, newImage) == <<newImage>>

\* setImages((prev) => [...prev, newImage]) (line 796), and the sort of the
\* render that follows it
AddImage(prev, newImage) == SortByName(Append(prev, newImage))

\* Mutant: the partial-limit notice is pushed before the two counts
FinalMessages_LimitFirst(b) ==
  (IF b.ignoredDueToLimit > 0
      THEN <<PartialMessage(Len(b.files) - b.invalidImageCount, b.ignoredDueToLimit)>>
      ELSE <<>>)
  \o (IF b.invalidSizeCount > 0 THEN <<InvalidDimensionsMessage(b.invalidSizeCount)>> ELSE <<>>)
  \o (IF b.invalidImageCount > 0 THEN <<InvalidImageMessage(b.invalidImageCount)>> ELSE <<>>)

\* The messages pushed after the loop (lines 810-824)
FinalMessages(b) ==
  (IF b.invalidSizeCount > 0 THEN <<InvalidDimensionsMessage(b.invalidSizeCount)>> ELSE <<>>)
  \o (IF b.invalidImageCount > 0 THEN <<InvalidImageMessage(b.invalidImageCount)>> ELSE <<>>)
  \o (IF b.ignoredDueToLimit > 0
      THEN <<PartialMessage(Len(b.files) - b.invalidImageCount, b.ignoredDueToLimit)>>
      ELSE <<>>)


----------------------------------------------------------------------------
(* Initial state: the values of the useState and useRef calls (lines       *)
(* 428-455).  An optional value (T | null, T | undefined) is a sequence of *)
(* length 0 or 1.                                                          *)

Null == <<>>
Some(x) == <<x>>

\* The frame of the timer callback: all and images are the files and the images
\* array it closed over, files is filesToProcess and i the loop's position.
IdleBatch ==
  [pc |-> "idle", all |-> <<>>, images |-> <<>>, files |-> <<>>, i |-> 0,
   messages |-> <<>>, invalidSizeCount |-> 0, invalidImageCount |-> 0,
   ignoredDueToLimit |-> 0]

ZeroSettings == [x |-> 0, y |-> 0, width |-> 0, height |-> 0, aspectRatio |-> <<0, 1>>]
ZeroRect == [x |-> 0, y |-> 0, width |-> 0, height |-> 0]

\* cropperRef.current?.cropper is undefined.  inst tells the instances that
\* successive openings mount apart, aspectRatio and canvasData are what
\* setAspectRatio and setCanvasData gave the surface.
NoCropper ==
  [alive |-> FALSE, ready |-> FALSE, inst |-> 0, data |-> ZeroRect,
   aspectRatio |-> <<0, 1>>, canvasData |-> "fit"]

InitIngest ==
  /\ images = <<>>
  /\ isProcessing = FALSE
  /\ processingTimeoutRef = FALSE
  /\ debounce = <<>>
  /\ batch = IdleBatch
  /\ fadePending = FALSE
  /\ toastQueue = <<>>
  /\ toasts = <<>>
  /\ now = 0
  /\ nCalls = 0
  /\ nDeletes = 0
  /\ menu \in Menus
  /\ removed = 0

InitEditor ==
  /\ currentImage = Null
  /\ activeCropSettings = ZeroSettings
  /\ globalCropSettings = Null
  /\ isPerImageCrop = TRUE
  /\ originalDimensions = Null
  /\ selectedAspectRatio = "free"
  /\ saveOnCancel = FALSE
  /\ initialCropSettings = Null
  /\ isOpen = FALSE
  /\ opening = Null
  /\ cropper = NoCropper
  /\ crop = Null
  /\ nOpens = 0
  /\ nCrops = 0
  /\ edit = [n |-> 0, log |-> <<>>, left |-> Null]

NoConv ==
  [op |-> "none", stage |-> 0, v |-> 0, O |-> 1, C |-> 1, d |-> 0, a |-> 0,
   s |-> "free", dims |-> [width |-> 0, height |-> 0], ratio |-> <<0, 1>>, back |-> "free",
   probe |-> FALSE, result |-> "none"]

\* No object URL exists when the component mounts
InitResources ==
  /\ objectUrlsToCleanup = <<>>
  /\ blobUrls = [live |-> {}, again |-> {}, late |-> {}]
  /\ mounted = TRUE

Init == InitIngest /\ InitEditor /\ InitResources /\ lastOp = "init" /\ conv = NoConv

----------------------------------------------------------------------------
(* Object URLs.  An URL is named by its use, the processFiles call and the *)
(* position of its file in the batch (for a save, the handleCrop call).    *)
(* The operators below work on the list of the ref and the platform's      *)
(* URLs taken together.                                                    *)

Resources ==
  [toCleanup |-> objectUrlsToCleanup, live |-> blobUrls.live, again |-> blobUrls.again,
   late |-> blobUrls.late]

SetResources(r) ==
  /\ objectUrlsToCleanup' = r.toCleanup
  /\ blobUrls' = [live |-> r.live, again |-> r.again, late |-> r.late]

\* URL.createObjectURL followed by addUrlForCleanup (lines 629-630, 786-787,
\* 1151-1152, 1185-1186)
CreateForCleanup(r, url) ==
  [r EXCEPT !.live = @ \cup {url}, !.toCleanup = Append(@, url)]

\* URL.revokeObjectURL
RevokeObjectURL(r, url) ==
  IF url \in r.live THEN [r EXCEPT !.live = @ \ {url}] ELSE [r EXCEPT !.again = @ \cup {url}]

\* removeUrlFromCleanup (lines 565-567)
RemoveUrlFromCleanup(r, url) ==
  LET other(u) == u /= url IN [r EXCEPT !.toCleanup = SelectSeq(@, other)]

\* URL.revokeObjectURL followed by removeUrlFromCleanup (lines 632-633, 639-640,
\* 674-675, 859-860, 1180-1181, 1216-1217)
Release(r, url) == RemoveUrlFromCleanup(RevokeObjectURL(r, url), url)

\* objectUrlsToCleanup.current.forEach(URL.revokeObjectURL) (lines 1342-1344)
RECURSIVE RevokeAll(_, _)
RevokeAll(r, urlList) ==
  IF urlList = <<>> THEN r ELSE RevokeAll(RevokeObjectURL(r, Head(urlList)), Tail(urlList))

ProbeUrl(call, i) == <<"probe", call, i>>
ImageUrl(call, i) == <<"image", call, i>>
SaveUrl(call) == <<"save", call, 0>>

----------------------------------------------------------------------------
(* processFiles (lines 689-831) up to the setTimeout.  s holds the state   *)
(* the call writes; closure holds isProcessing and images as the render    *)
(* that created this processFiles saw them.  ProcessFilesCall_NoGuard is   *)
(* the mutant without the busy check of line 691.                          *)

ProcessFilesCall_NoGuard(s, files, closure) ==
  IF Len(files) = 0 THEN s
  ELSE [isProcessing |-> TRUE,
        processingTimeoutRef |-> TRUE,
        debounce |-> <<[files |-> files, images |-> closure.images]>>,
        toasts |-> <<>>]

ProcessFilesCall(s, files, closure) ==
  IF closure.isProcessing THEN s
  ELSE IF Len(files) = 0 THEN s
  ELSE LET cleared == IF s.processingTimeoutRef THEN <<>> ELSE s.debounce
       IN [isProcessing |-> TRUE,
           processingTimeoutRef |-> TRUE,
           debounce |-> Append(cleared, [files |-> files, images |-> closure.images]),
           toasts |-> <<>>]

CallState ==
  [isProcessing |-> isProcessing, processingTimeoutRef |-> processingTimeoutRef,
   debounce |-> debounce, toasts |-> toasts]

Closure == [isProcessing |-> isProcessing, images |-> images]

Accepted(files) == ~isProcessing /\ Len(files) > 0

SetCallState(s, files) ==
  /\ isProcessing' = s.isProcessing
  /\ processingTimeoutRef' = s.processingTimeoutRef
  /\ debounce' = s.debounce
  /\ toasts' = s.toasts
  /\ nCalls' = IF Accepted(files) THEN nCalls + 1 ELSE nCalls
  /\ lastOp' = IF Accepted(files) THEN "processFiles" ELSE "processFiles:dropped"
  /\ removed' = IF Accepted(files) THEN 0 ELSE removed
  /\ UNCHANGED <<images, batch, fadePending, toastQueue, now, nDeletes, menu, editorVars,
                 conv, resourceVars>>

\* handleFileChange (lines 850-853): one call of processFiles
FileChange(files) ==
  /\ mounted
  /\ Accepted(files) => nCalls < MaxCalls
  /\ SetCallState(ProcessFilesCall(CallState, files, Closure), files)

\* handleDrop (lines 841-848) is both the Box's onDrop (line 1393) and a drop
\* listener of window (line 1353), so one drop calls processFiles twice.  The
\* second call runs the processFiles of the same render, or, if the state update
\* of the first was rendered in between, the one that sees isProcessing set.
Drop(files) ==
  /\ mounted
  /\ Accepted(files) => nCalls < MaxCalls
  /\ \E rerendered \in BOOLEAN :
       LET first == ProcessFilesCall(CallState, files, Closure)
           closure2 == IF rerendered
                       THEN [Closure EXCEPT !.isProcessing = first.isProcessing]
                       ELSE Closure
       IN SetCallState(ProcessFilesCall(first, files, closure2), files)

\* setTimeout(() => setIsProcessing(false), FADE_OUT) and
\* setTimeout(() => messages.forEach(toast), TOAST_DELAY), set together
Finish(messages) ==
  /\ batch' = IdleBatch
  /\ fadePending' = TRUE
  /\ toastQueue' = Append(toastQueue, messages)

\* The debounce timer fires: lines 703-780, and the loop up to its first await
TimerFire ==
  /\ debounce /= <<>>
  /\ LET t == Head(debounce)
         st == Stages(t.files, t.images)
     IN IF st.exit
        THEN /\ Finish(st.messages)
             /\ UNCHANGED <<objectUrlsToCleanup, blobUrls>>
        ELSE /\ batch' = [pc |-> "validating", all |-> t.files, images |-> t.images,
                          files |-> st.filesToProcess, i |-> 1,
                          messages |-> st.messages, invalidSizeCount |-> 0,
                          invalidImageCount |-> 0,
                          ignoredDueToLimit |-> st.ignoredDueToLimit]
             /\ SetResources(CreateForCleanup(Resources, ProbeUrl(nCalls, 1)))
             /\ UNCHANGED <<fadePending, toastQueue>>
  /\ debounce' = <<>>
  /\ lastOp' = "timer"
  /\ UNCHANGED <<images, isProcessing, processingTimeoutRef, toasts, now, nCalls,
                 nDeletes, menu, removed, mounted,
                 editorVars, conv>>

\* The handler of validateImage that resolves the promise (lines 631-635, 638-640,
\* 672-676) releases the probe URL; then the loop body after await
\* validateImage(file) (lines 785-803), then the next iteration up to its await,
\* or lines 810-827.  r is the resources as the handler leaves them.  The
\* setImages of a component that was unmounted does nothing.
Resolve(result, r) ==
  LET file == batch.files[batch.i]
      b == [batch EXCEPT
              !.invalidSizeCount = IF result \in {"too_small", "too_large"} THEN @ + 1 ELSE @,
              !.invalidImageCount = IF result = "corrupt" THEN @ + 1 ELSE @]
      objectUrl == ImageUrl(nCalls, batch.i)
      r1 == IF result = "valid" THEN CreateForCleanup(r, objectUrl) ELSE r
  IN /\ images' = IF result = "valid" /\ mounted
                   THEN AddImage(images, NewImage(file, now, objectUrl)) ELSE images
     /\ IF batch.i < Len(batch.files)
        THEN /\ batch' = [b EXCEPT !.i = @ + 1]
             /\ SetResources(CreateForCleanup(r1, ProbeUrl(nCalls, batch.i + 1)))
             /\ UNCHANGED <<fadePending, toastQueue>>
        ELSE /\ Finish(b.messages \o FinalMessages(b))
             /\ SetResources(r1)
     /\ UNCHANGED <<isProcessing, processingTimeoutRef, debounce, toasts, now, nCalls,
                    nDeletes, menu, removed, mounted,
                 editorVars, conv>>

Validating == batch.pc = "validating"
CurrentDecode == batch.files[batch.i].decode
CurrentProbe == ProbeUrl(nCalls, batch.i)

\* img.onload of validateImage (lines 637-670)
ImgOnload ==
  /\ Validating
  /\ CurrentDecode.ev = "load"
  /\ Resolve(OnloadResult(CurrentDecode), Release(Resources, CurrentProbe))
  /\ lastOp' = "onload"

\* img.onerror of validateImage (lines 672-677)
ImgOnerror ==
  /\ Validating
  /\ CurrentDecode.ev = "error"
  /\ Resolve("corrupt", Release(Resources, CurrentProbe))
  /\ lastOp' = "onerror"

\* The 10 s timeout of validateImage (lines 631-635).  img.onload and
\* img.onerror stay set: the image may still fire one of them.
ValidateTimeout ==
  /\ Validating
  /\ CurrentDecode.ev = "hang"
  /\ Resolve("corrupt",
             [Release(Resources, CurrentProbe) EXCEPT !.late = @ \cup {CurrentProbe}])
  /\ lastOp' = "timeout"

\* Mutant: the FADE_OUT timer leaves the busy flag as it is
Fade_KeepBusy ==
  /\ fadePending
  /\ Len(toastQueue) = 1
  /\ fadePending' = FALSE
  /\ lastOp' = "fade"
  /\ UNCHANGED <<images, isProcessing, processingTimeoutRef, debounce, batch, toastQueue,
                 toasts, now, nCalls, nDeletes, menu, removed,
                 editorVars, conv, resourceVars>>

\* setIsProcessing(false), FADE_OUT after the batch ended.  TOAST_DELAY >
\* FADE_OUT, and a later batch ends at least FADE_OUT + DEBOUNCE after this one:
\* an older batch's toast timer has fired before this fade does.
Fade ==
  /\ fadePending
  /\ Len(toastQueue) = 1
  /\ isProcessing' = IF mounted THEN FALSE ELSE isProcessing
  /\ fadePending' = FALSE
  /\ lastOp' = "fade"
  /\ UNCHANGED <<images, processingTimeoutRef, debounce, batch, toastQueue, toasts, now,
                 nCalls, nDeletes, menu, removed,
                 editorVars, conv, resourceVars>>

\* Mutant: a firing of the toast timer shows one message
ToastFlush_OneByOne ==
  /\ toastQueue /= <<>>
  /\ ~fadePending \/ Len(toastQueue) > 1
  /\ toasts' = toasts \o SubSeq(Head(toastQueue), 1, Min(1, Len(Head(toastQueue))))
  /\ toastQueue' = IF Len(Head(toastQueue)) <= 1 THEN Tail(toastQueue)
                   ELSE <<Tail(Head(toastQueue))>> \o Tail(toastQueue)
  /\ lastOp' = "flush"
  /\ UNCHANGED <<images, isProcessing, processingTimeoutRef, debounce, batch, fadePending,
                 now, nCalls, nDeletes, menu, removed,
                 editorVars, conv, resourceVars>>

\* messages.forEach((msg) => toast(msg)), TOAST_DELAY after the batch ended
ToastFlush ==
  /\ toastQueue /= <<>>
  /\ ~fadePending \/ Len(toastQueue) > 1
  /\ toasts' = toasts \o Head(toastQueue)
  /\ toastQueue' = Tail(toastQueue)
  /\ lastOp' = "flush"
  /\ UNCHANGED <<images, isProcessing, processingTimeoutRef, debounce, batch, fadePending,
                 now, nCalls, nDeletes, menu, removed,
                 editorVars, conv, resourceVars>>

Ids == {images[i].id : i \in 1..Len(images)}

\* prev.filter((img) => img.id !== id) (line 862)
WithoutId(imgs, id) == LET keep(img) == img.id /= id IN SelectSeq(imgs, keep)

\* prev.find((img) => img.id === id) (line 857): the first record of that id
Find(imgs, id) == imgs[CHOOSE i \in 1..Len(imgs) :
                         imgs[i].id = id /\ \A j \in 1..(i - 1) : imgs[j].id /= id]

\* handleDelete (lines 855-864); the click also reaches handlePageClick
Delete(id) ==
  /\ mounted
  /\ ~isOpen
  /\ nDeletes < MaxDeletes
  /\ images' = WithoutId(images, id)
  /\ SetResources(Release(Resources, Find(images, id).url))
  /\ toasts' = <<>>
  /\ nDeletes' = nDeletes + 1
  /\ removed' = removed + (Len(images) - Len(images'))
  /\ lastOp' = "delete"
  /\ UNCHANGED <<isProcessing, processingTimeoutRef, debounce, batch, fadePending,
                 toastQueue, now, nCalls, menu, mounted, editorVars, conv>>

\* Date.now() advances.  The clock is read only in the loop body (line 789),
\* after an awaited validation: it is there that the model lets time pass.
Tick ==
  /\ Validating
  /\ now < MaxTime
  /\ now' = now + 1
  /\ lastOp' = "tick"
  /\ UNCHANGED <<images, isProcessing, processingTimeoutRef, debounce, batch, fadePending,
                 toastQueue, toasts, nCalls, nDeletes, menu, removed,
                 editorVars, conv, resourceVars>>

NextIngest ==
  \/ \E files \in Offered : FileChange(files)
  \/ \E files \in Offered : Drop(files)
  \/ TimerFire
  \/ ImgOnload
  \/ ImgOnerror
  \/ ValidateTimeout
  \/ Fade
  \/ ToastFlush
  \/ \E id \in Ids : Delete(id)
  \/ Tick

Spec == Init /\ [][NextIngest]_vars

\* A late img.onload or img.onerror of validateImage (lines 637-677), after the
\* timeout resolved the promise: clearTimeout and resolve do nothing, the URL is
\* released again
LateDecode(url) ==
  /\ SetResources([Release(Resources, url) EXCEPT !.late = @ \ {url}])
  /\ lastOp' = "late"
  /\ UNCHANGED <<ingestVars, editorVars, mounted, conv>>

\* The ingestion with the events that the browser delivers on its own: a decode
\* ends with load or error unless it hangs, and a timer that was set and not
\* cleared fires (the 10 s timer of validateImage, the FADE_OUT and TOAST_DELAY
\* timers).  A selection, a drop or a deletion is the user's and need not
\* happen, and a decode that hung may or may not end later.  The user delivers
\* the short batches of files that decode, fail or hang.
InitFair == Init /\ menu = "decodes"

NextFair ==
  \/ NextIngest
  \/ \E url \in blobUrls.late : LateDecode(url)

SpecFair ==
  /\ InitFair
  /\ [][NextFair]_vars
  /\ WF_vars(ImgOnload)
  /\ WF_vars(ImgOnerror)
  /\ WF_vars(ValidateTimeout)
  /\ WF_vars(Fade)
  /\ WF_vars(ToastFlush)

\* The session after one batch of MAX_IMAGES well-formed files was admitted
FullSession ==
  SortByName([i \in 1..MAX_IMAGES |-> NewImage(GoodFile(i), 0, ImageUrl(1, i))])
FullSessionUrls == [i \in 1..MAX_IMAGES |-> ImageUrl(1, i)]

\* The ingestion of the batches that reach every end of the timer callback,
\* in a new session or in one that is full, with the events the browser
\* delivers on its own: here the DEBOUNCE timer of processFiles (line 702)
\* fires as well, since nothing but a later accepted call, which sets its own,
\* clears it.
InitBusy ==
  /\ \E full \in BOOLEAN :
       /\ images = IF full THEN FullSession ELSE <<>>
       /\ processingTimeoutRef = full
       /\ nCalls = IF full THEN 1 ELSE 0
       /\ objectUrlsToCleanup = IF full THEN FullSessionUrls ELSE <<>>
       /\ blobUrls = [live |-> IF full THEN {FullSessionUrls[i] : i \in 1..MAX_IMAGES} ELSE {},
                      again |-> {}, late |-> {}]
  /\ isProcessing = FALSE
  /\ debounce = <<>>
  /\ batch = IdleBatch
  /\ fadePending = FALSE
  /\ toastQueue = <<>>
  /\ toasts = <<>>
  /\ now = 0
  /\ nDeletes = 0
  /\ menu = "exits"
  /\ removed = 0
  /\ InitEditor
  /\ mounted = TRUE
  /\ lastOp = "init"
  /\ conv = NoConv

NextBusy ==
  \/ \E files \in Offered : FileChange(files)
  \/ \E files \in Offered : Drop(files)
  \/ TimerFire
  \/ ImgOnload
  \/ ImgOnerror
  \/ ValidateTimeout
  \/ Fade
  \/ ToastFlush
  \/ Tick
  \/ \E url \in blobUrls.late : LateDecode(url)

SpecBusy ==
  /\ InitBusy
  /\ [][NextBusy]_vars
  /\ WF_vars(TimerFire)
  /\ WF_vars(ImgOnload)
  /\ WF_vars(ImgOnerror)
  /\ WF_vars(ValidateTimeout)
  /\ WF_vars(Fade)
  /\ WF_vars(ToastFlush)

\* The cleanups of the effects of lines 1331-1347, run when the component is
\* unmounted: the timer that processingTimeoutRef holds is cleared, and every
\* URL of objectUrlsToCleanup is revoked.  The timers of a running batch stay.
Teardown ==
  /\ mounted
  /\ ~isOpen
  /\ mounted' = FALSE
  /\ debounce' = IF processingTimeoutRef THEN <<>> ELSE debounce
  /\ processingTimeoutRef' = FALSE
  /\ SetResources([RevokeAll(Resources, objectUrlsToCleanup) EXCEPT !.toCleanup = <<>>])
  /\ lastOp' = "teardown"
  /\ UNCHANGED <<images, isProcessing, batch, fadePending, toastQueue, toasts, now, nCalls,
                 nDeletes, menu, removed, editorVars, conv>>

NextResources ==
  \/ NextIngest
  \/ \E url \in blobUrls.late : LateDecode(url)
  \/ Teardown

SpecResources == Init /\ [][NextResources]_vars


----------------------------------------------------------------------------
(* The crop state manager.  A crop rectangle is in units of 1/Scale pixel; *)
(* image sizes and cropHistory entries are in pixels.  A ratio n/d is the  *)
(* pair <<n, d>>; d = 0 stands for the non-finite quotients.               *)

Units(px) == px * Scale

\* Math.round of a length given in units of 1/Scale pixel: floor(v/Scale + 1/2)
Round(v) == (2 * v + Scale) \div (2 * Scale)

RECURSIVE Gcd(_, _)
Gcd(a, b) == IF b = 0 THEN a ELSE Gcd(b, a % b)

RECURSIVE IsPowerOfTwo(_)
IsPowerOfTwo(n) == n = 1 \/ (n % 2 = 0 /\ IsPowerOfTwo(n \div 2))

\* Is the double a / b the exact quotient (a >= 0 and b > 0 small integers)
ExactQuotient(a, b) == a = 0 \/ IsPowerOfTwo(b \div Gcd(a, b))

\* Math.round((a / b) * c) in doubles, for a, c >= 0 and b > 0: floor of the
\* product plus 1/2.  A product that is exactly k + 1/2 rounds to k + 1 when
\* a / b is exact; otherwise the double may lie just below k + 1/2 and round to
\* k (so does (145 / 1000) * 100), and both k and k + 1 are outcomes.
RoundedProduct(a, b, c) ==
  LET q == (2 * a * c + b) \div (2 * b)
  IN IF (2 * a * c + b) % (2 * b) = 0 /\ ~ExactQuotient(a, b) THEN {q - 1, q} ELSE {q}

\* convertToDisplaySize (lines 255-261): the values it may return
convertToDisplaySize(actualSize, originalSize, displaySize) ==
  RoundedProduct(actualSize, originalSize, displaySize)

\* Mutant: the product is truncated
convertToActualSize_Floor(displaySize, originalSize, containerSize) ==
  {(displaySize * originalSize) \div containerSize}

\* convertToActualSize (lines 263-269): the values it may return
convertToActualSize(displaySize, originalSize, containerSize) ==
  RoundedProduct(displaySize, containerSize, originalSize)

\* getAspectRatioFromSelection (lines 569-581); dims is originalDimensions
getAspectRatioFromSelection(value, dims) ==
  CASE value = "original" ->
         IF dims /= Null THEN <<dims[1].width, dims[1].height>> ELSE <<0, 1>>
    [] value = "1:1" -> <<1, 1>>
    [] OTHER -> <<0, 1>>

\* Math.abs(ratio - width / height) < 0.0001 (line 591), cross-multiplied
WithinTolerance(ratio, dims) ==
  Abs(ratio[1] * dims.height - dims.width * ratio[2])
    <= (ratio[2] * dims.height - 1) \div 10000

\* Mutant: the test for the square ratio is missing
getSelectionFromAspectRatio_NoSquare(ratio, dims) ==
  IF dims /= Null /\ WithinTolerance(ratio, dims[1]) THEN "original" ELSE "free"

\* getSelectionFromAspectRatio (lines 583-596)
getSelectionFromAspectRatio(ratio, dims) ==
  IF ratio[2] /= 0 /\ ratio[1] = ratio[2] THEN "1:1"
  ELSE IF dims /= Null /\ WithinTolerance(ratio, dims[1]) THEN "original"
  ELSE "free"

\* cropper.getData() (lines 976, 1011, 1134, 1252): the rectangle of a ready
\* surface, zeros from one that is not ready or was destroyed
GetData(c) == IF c.alive /\ c.ready THEN c.data ELSE ZeroRect

Rect(r) == [x |-> r.x, y |-> r.y, width |-> r.width, height |-> r.height]

\* Can a surface with this aspect ratio hold the rectangle
Reportable(ratio, r) == ratio[1] = 0 \/ r.width * ratio[2] = r.height * ratio[1]

\* cropper.setData(r) (lines 984, 1010): the surface takes a rectangle that lies
\* within the image; under a fixed aspect ratio it derives the height
SetData(c, r) ==
  [c EXCEPT !.data = IF Reportable(c.aspectRatio, r) THEN Rect(r)
                     ELSE [Rect(r) EXCEPT
                             !.height = (r.width * c.aspectRatio[2]) \div c.aspectRatio[1]]]

\* prev.map((img) => img.id === id ? f(img) : img), and the sort of the render;
\* updated[i] is f(imgs[i])
MapById(imgs, id, updated) ==
  SortByName([i \in 1..Len(imgs) |-> IF imgs[i].id = id THEN updated[i] ELSE imgs[i]])

\* The positions of the Session
Each == 1..Len(images)

\* The rectangles the user drags the crop box to, within the 16 x 20 image: one
\* at fractional pixels with a width below CROP_SIZE.MIN, one of whole pixels
\* in the image's own ratio
DragRects ==
  { [x |-> 1, y |-> Scale + 1, width |-> 1, height |-> 2 * Scale + 1],
    [x |-> 0, y |-> Scale, width |-> 4 * Scale, height |-> 5 * Scale] }

\* newCropSettings of updateCropSettings (lines 600-607)
RoundedSettings(data) ==
  [x |-> Units(Round(data.x)), y |-> Units(Round(data.y)),
   width |-> Units(Round(data.width)), height |-> Units(Round(data.height)),
   aspectRatio |-> <<data.width, data.height>>]

\* Mutant: the settings go to both stores
StoreCropSettings_Both(newCropSettings, perImage, image) ==
  LET set == [k \in 1..Len(images) |->
                [images[k] EXCEPT !.cropSettings = Some(newCropSettings)]]
  IN /\ images' = IF image /= Null THEN MapById(images, image[1].id, set) ELSE images
     /\ globalCropSettings' = Some(newCropSettings)

\* The store that the settings go to (lines 611-619, 1051-1059): the record of
\* the image in per-image mode, globalCropSettings otherwise
StoreCropSettings(newCropSettings, perImage, image) ==
  LET set == [k \in Each |-> [images[k] EXCEPT !.cropSettings = Some(newCropSettings)]]
  IN IF perImage /\ image /= Null
     THEN /\ images' = MapById(images, image[1].id, set)
          /\ UNCHANGED globalCropSettings
     ELSE /\ globalCropSettings' = Some(newCropSettings)
          /\ UNCHANGED images

\* The state updateCropSettings(data) writes (lines 598-622); perImage and image
\* are isPerImageCrop and currentImage of the calling closure
UpdateCropSettings(data, perImage, image) ==
  /\ activeCropSettings' = RoundedSettings(data)
  /\ StoreCropSettings(RoundedSettings(data), perImage, image)

ingestRest ==
  <<isProcessing, processingTimeoutRef, debounce, batch, fadePending, toastQueue,
    now, nCalls, nDeletes, menu, removed>>

\* Mutant: the editor closes and the surface is left as it is
Close_KeepSurface ==
  IF isOpen
  THEN /\ isOpen' = FALSE
       /\ activeCropSettings' = ZeroSettings
       /\ edit' = [edit EXCEPT !.log = <<>>]
       /\ UNCHANGED cropper
  ELSE UNCHANGED <<isOpen, cropper, activeCropSettings, edit>>

\* onClose() and the effect on isOpen (lines 1367-1383): the surface is destroyed
\* and the active settings are reset
Close ==
  IF isOpen
  THEN /\ isOpen' = FALSE
       /\ cropper' = NoCropper
       /\ activeCropSettings' = ZeroSettings
       /\ edit' = [edit EXCEPT !.log = <<>>]
  ELSE UNCHANGED <<isOpen, cropper, activeCropSettings, edit>>

\* The cropSettings of the records, by object URL
PerImageStore ==
  [url \in {images[i].url : i \in 1..Len(images)} |->
     (CHOOSE img \in {images[i] : i \in 1..Len(images)} : img.url = url).cropSettings]

\* handleCropMemoryChange (lines 866-868); the select is on the page.  The
\* policy is switched while an opening is still to come.  With recorded set,
\* edit.left keeps the store of the mode that is left, as it is at the switch.
CropMemory(recorded) ==
  /\ ~isOpen
  /\ opening = Null
  /\ nOpens < MaxOpens
  /\ isPerImageCrop' = ~isPerImageCrop
  /\ toasts' = <<>>
  /\ edit' = IF recorded
               THEN [edit EXCEPT !.left = Some(IF isPerImageCrop THEN PerImageStore
                                               ELSE globalCropSettings)]
               ELSE edit
  /\ lastOp' = "memory"
  /\ UNCHANGED <<images, ingestRest, currentImage, activeCropSettings, globalCropSettings,
                 originalDimensions, selectedAspectRatio, saveOnCancel,
                 initialCropSettings, isOpen, opening, cropper, crop, nOpens, nCrops, conv,
                 resourceVars>>

CropMemoryChange == CropMemory(FALSE)
CropMemoryRecorded == CropMemory(TRUE)

\* The save-on-cancel checkbox of the editor (line 1981)
SaveOnCancelChange ==
  /\ isOpen
  /\ saveOnCancel' = ~saveOnCancel
  /\ lastOp' = "saveOnCancel"
  /\ UNCHANGED <<images, ingestRest, toasts, currentImage, activeCropSettings,
                 globalCropSettings, isPerImageCrop, originalDimensions,
                 selectedAspectRatio, initialCropSettings, isOpen, opening, cropper,
                 crop, nOpens, nCrops, conv, edit, resourceVars>>

\* openCropModal (lines 1068-1119) up to img.src = image.url.  The handlers close
\* over isPerImageCrop and globalCropSettings of this render.
OpenCropModal(i) ==
  /\ ~isOpen
  /\ opening = Null
  /\ nOpens < MaxOpens
  /\ currentImage' = Some(images[i])
  /\ opening' = Some([image |-> images[i], isPerImageCrop |-> isPerImageCrop,
                      globalCropSettings |-> globalCropSettings])
  /\ nOpens' = nOpens + 1
  /\ toasts' = <<>>
  /\ lastOp' = "open"
  /\ UNCHANGED <<images, ingestRest, activeCropSettings, globalCropSettings,
                 isPerImageCrop, originalDimensions, selectedAspectRatio, saveOnCancel,
                 initialCropSettings, isOpen, cropper, crop, nCrops, conv, edit, resourceVars>>

\* The centered 50% rectangle of lines 1093-1099
DefaultSettings(dimensions) ==
  [x |-> Units(dimensions.width) \div 4, y |-> Units(dimensions.height) \div 4,
   width |-> Units(dimensions.width) \div 2, height |-> Units(dimensions.height) \div 2,
   aspectRatio |-> <<0, 1>>]

\* initialSettings of lines 1101-1103
InitialSettings(o, dimensions) ==
  IF o.isPerImageCrop
  THEN IF o.image.cropSettings /= NoSettings THEN o.image.cropSettings[1]
       ELSE DefaultSettings(dimensions)
  ELSE IF o.globalCropSettings /= Null THEN o.globalCropSettings[1]
       ELSE DefaultSettings(dimensions)

\* img.onload of openCropModal (lines 1088-1116); the Modal then mounts the Cropper
OpenOnload ==
  /\ opening /= Null
  /\ LET o == opening[1]
         dimensions == [width |-> o.image.file.decode.width,
                        height |-> o.image.file.decode.height]
         initialSettings == InitialSettings(o, dimensions)
     IN /\ originalDimensions' = Some(dimensions)
        /\ initialCropSettings' = Some(initialSettings)
        /\ activeCropSettings' = initialSettings
        /\ selectedAspectRatio' =
             getSelectionFromAspectRatio(initialSettings.aspectRatio, Some(dimensions))
  /\ opening' = Null
  /\ isOpen' = TRUE
  /\ cropper' = [NoCropper EXCEPT !.alive = TRUE, !.inst = nOpens]
  /\ lastOp' = "open:onload"
  /\ UNCHANGED <<images, ingestRest, toasts, currentImage, globalCropSettings,
                 isPerImageCrop, saveOnCancel, crop, nOpens, nCrops, conv, edit, resourceVars>>

\* Mutant: the failed load is not reported
OpenOnerror_NoNotice ==
  /\ opening /= Null
  /\ opening' = Null
  /\ lastOp' = "open:onerror"
  /\ UNCHANGED <<images, ingestRest, toasts, currentImage, activeCropSettings,
                 globalCropSettings, isPerImageCrop, originalDimensions,
                 selectedAspectRatio, saveOnCancel, initialCropSettings, isOpen, cropper,
                 crop, nOpens, nCrops, conv, edit, resourceVars>>

\* img.onerror of openCropModal (lines 1077-1086)
OpenOnerror ==
  /\ opening /= Null
  /\ opening' = Null
  /\ toasts' = Append(toasts, LoadErrorMessage)
  /\ lastOp' = "open:onerror"
  /\ UNCHANGED <<images, ingestRest, currentImage, activeCropSettings, globalCropSettings,
                 isPerImageCrop, originalDimensions, selectedAspectRatio, saveOnCancel,
                 initialCropSettings, isOpen, cropper, crop, nOpens, nCrops, conv, edit, resourceVars>>

\* handleCropperReady and its animation frame (lines 995-1022)
CropperReady ==
  /\ isOpen
  /\ cropper.alive
  /\ ~cropper.ready
  /\ LET aspectRatio == getAspectRatioFromSelection(selectedAspectRatio, originalDimensions)
         c1 == [cropper EXCEPT !.ready = TRUE, !.aspectRatio = aspectRatio]
         c2 == IF currentImage[1].canvasData /= NoCanvasData
               THEN [c1 EXCEPT !.canvasData = currentImage[1].canvasData[1]] ELSE c1
         c3 == SetData(c2, initialCropSettings[1])
     IN /\ cropper' = c3
        /\ UpdateCropSettings(GetData(c3), isPerImageCrop, currentImage)
  /\ lastOp' = "ready"
  /\ UNCHANGED <<ingestRest, toasts, currentImage, isPerImageCrop, originalDimensions,
                 selectedAspectRatio, saveOnCancel, initialCropSettings, isOpen, opening,
                 crop, nOpens, nCrops, conv, edit, resourceVars>>

\* Mutant: the corrected rectangle is recorded and not given to the surface
CropEvent_NoPushBack(r) ==
  /\ isOpen
  /\ cropper.alive
  /\ cropper.ready
  /\ Reportable(cropper.aspectRatio, r)
  /\ LET c1 == [cropper EXCEPT !.data = r]
         data == GetData(c1)
         newData == [data EXCEPT !.width = Max(data.width, Units(CROP_SIZE_MIN)),
                                 !.height = Max(data.height, Units(CROP_SIZE_MIN))]
     IN /\ cropper' = c1
        /\ UpdateCropSettings(newData, isPerImageCrop, currentImage)
  /\ lastOp' = "cropEvent"
  /\ UNCHANGED <<ingestRest, toasts, currentImage, isPerImageCrop, originalDimensions,
                 selectedAspectRatio, saveOnCancel, initialCropSettings, isOpen, opening,
                 crop, nOpens, nCrops, conv, edit, resourceVars>>

\* handleCropEvent (lines 970-991) on the crop box being dragged to r
CropEvent(r) ==
  /\ isOpen
  /\ cropper.alive
  /\ cropper.ready
  /\ Reportable(cropper.aspectRatio, r)
  /\ LET c1 == [cropper EXCEPT !.data = r]
         data == GetData(c1)
         small == data.width < Units(CROP_SIZE_MIN) \/ data.height < Units(CROP_SIZE_MIN)
         newData == [data EXCEPT !.width = Max(data.width, Units(CROP_SIZE_MIN)),
                                 !.height = Max(data.height, Units(CROP_SIZE_MIN))]
     IN /\ cropper' = IF small THEN [c1 EXCEPT !.data = newData] ELSE c1
        /\ UpdateCropSettings(IF small THEN newData ELSE data, isPerImageCrop, currentImage)
  /\ lastOp' = "cropEvent"
  /\ UNCHANGED <<ingestRest, toasts, currentImage, isPerImageCrop, originalDimensions,
                 selectedAspectRatio, saveOnCancel, initialCropSettings, isOpen, opening,
                 crop, nOpens, nCrops, conv, edit, resourceVars>>

\* cropper.getContainerData() (line 890): the extent of the editor's container,
\* three quarters of the 16 x 20 image
ContainerData == [width |-> 12, height |-> 15]

\* canvasData.naturalWidth and naturalHeight (lines 888-889) of the open image
NaturalSize(image) == [width |-> image.file.decode.width, height |-> image.file.decode.height]

\* The surface keeps the crop box within the image (viewMode 1, line 1785): a
\* rectangle that would pass the bottom is cut, under a fixed ratio with its
\* width, and one that would pass the right edge is moved left
SetDataWithin(c, r, dims) ==
  LET s == SetData(c, r).data
      bottom == Units(dims.height) - s.y
      cut == IF s.height <= bottom THEN s
             ELSE [s EXCEPT !.height = bottom,
                            !.width = IF c.aspectRatio[1] = 0 THEN @
                                      ELSE (bottom * c.aspectRatio[1]) \div c.aspectRatio[2]]
  IN [c EXCEPT !.data = [cut EXCEPT !.x = Max(0, Min(@, Units(dims.width) - cut.width))]]

\* The edit log with one more entry: the field, the value entered, whether the
\* surface was ready, the image's size, the rectangle the surface held and the
\* rectangle given to cropper.setData
Logged(entry) == [edit EXCEPT !.n = @ + 1, !.log = Append(@, entry)]

\* The result of arithmetic on undefined (lines 888-922 before the ready event)
NaN == 0 - 1

\* The fields of the editor and the values typed into them, in units of
\* 1/Scale pixel: 0, 2.5 and 20000
Keys == {"x", "y", "width", "height"}
EnteredValues == {0, 2 * Scale + 1, Units(20000)}

\* Mutant: a width or height is not raised to 1
NewData_NoMin(key, num, currentData, imageWidth, imageHeight) ==
  CASE key = "x" ->
         [currentData EXCEPT !.x = Max(0, Min(Units(imageWidth) - currentData.width, num))]
    [] key = "y" ->
         [currentData EXCEPT !.y = Max(0, Min(Units(imageHeight) - currentData.height, num))]
    [] key = "width" ->
         [currentData EXCEPT !.width = Min(Units(imageWidth) - currentData.x, num)]
    [] key = "height" ->
         [currentData EXCEPT !.height = Min(Units(imageHeight) - currentData.y, num)]

\* newData of handleNumericChange (lines 902-917)
NewData(key, num, currentData, imageWidth, imageHeight) ==
  CASE key = "x" ->
         [currentData EXCEPT !.x = Max(0, Min(Units(imageWidth) - currentData.width, num))]
    [] key = "y" ->
         [currentData EXCEPT !.y = Max(0, Min(Units(imageHeight) - currentData.height, num))]
    [] key = "width" ->
         [currentData EXCEPT
            !.width = Max(Units(1), Min(Units(imageWidth) - currentData.x, num))]
    [] key = "height" ->
         [currentData EXCEPT
            !.height = Max(Units(1), Min(Units(imageHeight) - currentData.y, num))]

\* Mutant: the x and y fields are converted too
ActualValues_AllFields(key, value, dims) ==
  LET num == Min(value, Units(CROP_SIZE_MAX))
  IN IF key \in {"x", "width"}
     THEN {Units(n) : n \in convertToActualSize(num, dims.width, Units(ContainerData.width))}
     ELSE {Units(n) : n \in convertToActualSize(num, dims.height, Units(ContainerData.height))}

\* num after lines 878 and 893-899: a width or height is converted from the
\* container's scale to the image's
ActualValues(key, value, dims) ==
  LET num == Min(value, Units(CROP_SIZE_MAX))
  IN CASE key = "width" ->
            {Units(n) : n \in convertToActualSize(num, dims.width, Units(ContainerData.width))}
       [] key = "height" ->
            {Units(n) : n \in convertToActualSize(num, dims.height, Units(ContainerData.height))}
       [] OTHER -> {num}

\* handleCropEvent's correction (lines 978-986) of the rectangle the surface holds
RaisedToMin(data) ==
  [data EXCEPT !.width = Max(data.width, Units(CROP_SIZE_MIN)),
               !.height = Max(data.height, Units(CROP_SIZE_MIN))]

\* The values typed into a field, in units of 1/Scale pixel: those of
\* EnteredValues and -1
TypedValues == EnteredValues \cup {0 - Scale}

\* Mutant: the typed number is taken as it is
CappedValue_AsTyped(value) == value

\* num of line 878: Math.min(Number(value), CROP_SIZE.MAX)
CappedValue(value) == Min(value, Units(CROP_SIZE_MAX))

\* handleNumericChange(key, value, false) (lines 873-886), called by the
\* onChange of a field (lines 941-967): the functional update of
\* activeCropSettings.  The log entry holds the field and the typed value.
NumericKeystroke(key, value) ==
  /\ isOpen
  /\ cropper.alive
  /\ edit.n < MaxEdits
  /\ activeCropSettings' = [activeCropSettings EXCEPT ![key] = CappedValue(value)]
  /\ edit' = Logged([key |-> key, value |-> value, ready |-> cropper.ready,
                     dims |-> [width |-> 0, height |-> 0],
                     current |-> GetData(cropper), pushed |-> ZeroRect])
  /\ lastOp' = "keystroke"
  /\ UNCHANGED <<images, ingestRest, toasts, currentImage, globalCropSettings,
                 isPerImageCrop, originalDimensions, selectedAspectRatio, saveOnCancel,
                 initialCropSettings, isOpen, opening, cropper, crop, nOpens, nCrops, conv,
                 resourceVars>>

\* handleNumericChange(key, value, true) (lines 873-938), called on blur and on
\* Enter (lines 1319-1326).  cropper.setData raises the crop event, so
\* handleCropEvent runs within the call; the setActiveCropSettings of lines
\* 931-937 is the last one.
NumericCommit(key, value) ==
  /\ isOpen
  /\ cropper.alive
  /\ currentImage /= Null
  /\ edit.n < MaxEdits
  /\ IF ~cropper.ready
     THEN /\ activeCropSettings' =
               [x |-> 0, y |-> 0, width |-> NaN, height |-> NaN,
                aspectRatio |-> activeCropSettings.aspectRatio]
          /\ edit' = Logged([key |-> key, value |-> value, ready |-> FALSE,
                             dims |-> [width |-> 0, height |-> 0],
                             current |-> ZeroRect, pushed |-> ZeroRect])
          /\ UNCHANGED <<images, globalCropSettings, cropper>>
     ELSE LET dims == NaturalSize(currentImage[1])
              currentData == GetData(cropper)
          IN \E num \in ActualValues(key, value, dims) :
               LET newData == NewData(key, num, currentData, dims.width, dims.height)
                   c1 == SetDataWithin(cropper, newData, dims)
                   c2 == [c1 EXCEPT !.data = RaisedToMin(@)]
                   finalData == GetData(c2)
               IN /\ cropper' = c2
                  /\ StoreCropSettings(RoundedSettings(finalData), isPerImageCrop, currentImage)
                  /\ \E w \in convertToDisplaySize(finalData.width, Units(dims.width),
                                                    ContainerData.width),
                        h \in convertToDisplaySize(finalData.height, Units(dims.height),
                                                    ContainerData.height) :
                       activeCropSettings' =
                         [x |-> Units(Round(finalData.x)), y |-> Units(Round(finalData.y)),
                          width |-> Units(w), height |-> Units(h),
                          aspectRatio |-> activeCropSettings.aspectRatio]
                  /\ edit' = Logged([key |-> key, value |-> value, ready |-> TRUE,
                                     dims |-> dims, current |-> currentData,
                                     pushed |-> newData])
  /\ lastOp' = "numeric"
  /\ UNCHANGED <<ingestRest, toasts, currentImage, isPerImageCrop, originalDimensions,
                 selectedAspectRatio, saveOnCancel, initialCropSettings, isOpen, opening,
                 crop, nOpens, nCrops, conv, resourceVars>>

\* The selector values of the aspect-ratio select (lines 1862-1877)
Selections == {"free", "original", "1:1"}

\* Mutant: the height is kept under every ratio
AspectSettings_KeepHeight(currentData, aspectRatio) ==
  [x |-> currentData.x, y |-> currentData.y, width |-> currentData.width,
   height |-> currentData.height, aspectRatio |-> aspectRatio]

\* newCropSettings of handleAspectChange (lines 1037-1043); the quotient is kept
\* to the model's resolution
AspectSettings(currentData, aspectRatio) ==
  [x |-> currentData.x, y |-> currentData.y, width |-> currentData.width,
   height |-> IF aspectRatio[1] /= 0
              THEN (currentData.width * aspectRatio[2]) \div aspectRatio[1]
              ELSE currentData.height,
   aspectRatio |-> aspectRatio]

\* handleAspectChange (lines 1025-1063).  The crop events that setAspectRatio
\* and setData raise run handleCropEvent within the call; the handler's own
\* setActiveCropSettings and its write to the store come last.
AspectChange(value) ==
  /\ isOpen
  /\ edit.n < MaxEdits
  /\ edit' = Logged([key |-> "aspectRatio", value |-> 0, ready |-> cropper.ready,
                     dims |-> [width |-> 0, height |-> 0],
                     current |-> GetData(cropper), pushed |-> ZeroRect])
  /\ selectedAspectRatio' = value
  /\ IF cropper.alive
     THEN LET aspectRatio == getAspectRatioFromSelection(value, originalDimensions)
              newCropSettings == AspectSettings(GetData(cropper), aspectRatio)
              c1 == [cropper EXCEPT !.aspectRatio = aspectRatio]
              c2 == SetDataWithin(c1, Rect(newCropSettings), originalDimensions[1])
          IN /\ cropper' = IF cropper.ready THEN [c2 EXCEPT !.data = RaisedToMin(@)] ELSE c1
             /\ activeCropSettings' = newCropSettings
             /\ StoreCropSettings(newCropSettings, isPerImageCrop, currentImage)
     ELSE UNCHANGED <<cropper, activeCropSettings, images, globalCropSettings>>
  /\ lastOp' = "aspect"
  /\ UNCHANGED <<ingestRest, toasts, currentImage, isPerImageCrop, originalDimensions,
                 saveOnCancel, initialCropSettings, isOpen, opening, crop, nOpens, nCrops,
                 conv, resourceVars>>

\* handleCrop (lines 1122-1128) up to the await of canvas.toBlob.  The frame
\* keeps the cropper instance and the currentImage and activeCropSettings of the
\* render.  getCroppedCanvas() of a surface that is not ready is null and the
\* call ends at line 1128 with no state written.
HandleCrop ==
  /\ isOpen
  /\ cropper.alive
  /\ cropper.ready
  /\ currentImage /= Null
  /\ crop = Null
  /\ nCrops < MaxCrops
  /\ crop' = Some([image |-> currentImage[1],
                   aspectRatio |-> activeCropSettings.aspectRatio,
                   inst |-> cropper.inst])
  /\ nCrops' = nCrops + 1
  /\ lastOp' = "crop"
  /\ UNCHANGED <<images, ingestRest, toasts, currentImage, activeCropSettings,
                 globalCropSettings, isPerImageCrop, originalDimensions,
                 selectedAspectRatio, saveOnCancel, initialCropSettings, isOpen, opening,
                 cropper, nOpens, conv, edit, resourceVars>>

\* if (!blob) return (line 1129)
CropNoBlob ==
  /\ crop /= Null
  /\ crop' = Null
  /\ lastOp' = "crop:noblob"
  /\ UNCHANGED <<images, ingestRest, toasts, currentImage, activeCropSettings,
                 globalCropSettings, isPerImageCrop, originalDimensions,
                 selectedAspectRatio, saveOnCancel, initialCropSettings, isOpen, opening,
                 cropper, nOpens, nCrops, conv, edit, resourceVars>>

\* cropper.getData() of the instance the frame holds (line 1134)
FrameData(f) == IF cropper.inst = f.inst THEN GetData(cropper) ELSE ZeroRect

\* newCropSettings of lines 1136-1142
NewCropSettings(f) ==
  LET data == FrameData(f)
  IN [x |-> data.x, y |-> data.y, width |-> data.width, height |-> data.height,
      aspectRatio |-> f.aspectRatio]

\* The cropHistory entry of lines 1166-1171 and 1202-1207
HistoryEntry(data) ==
  [x |-> Round(data.x), y |-> Round(data.y),
   width |-> Round(data.width), height |-> Round(data.height)]

\* The record written after a save through showSaveFilePicker (lines 1159-1173)
NativeSaved(img, newCropSettings, canvasData, data) ==
  [img EXCEPT !.cropped = TRUE,
              !.cropSettings = Some(newCropSettings),
              !.canvasData = Some(canvasData),
              !.cropHistory = Append(@, HistoryEntry(data))]

\* Mutant: the download path appends the entry and leaves the flag
FallbackSaved_NoFlag(img, newCropSettings, data) ==
  [img EXCEPT !.cropSettings = Some(newCropSettings),
              !.cropHistory = Append(@, HistoryEntry(data))]

\* The record written after the anchor download (lines 1196-1209)
FallbackSaved(img, newCropSettings, data) ==
  [img EXCEPT !.cropped = TRUE,
              !.cropSettings = Some(newCropSettings),
              !.cropHistory = Append(@, HistoryEntry(data))]

\* Mutant: the catch block records the crop as applied
SaveFailed_Applied(img, newCropSettings) ==
  [img EXCEPT !.cropped = TRUE, !.cropSettings = Some(newCropSettings)]

\* The record written by the catch block (lines 1227-1230)
SaveFailed(img, newCropSettings) ==
  [img EXCEPT !.cropSettings = Some(newCropSettings)]

\* handleCrop from the blob on (lines 1131-1243).  path is the branch taken:
\* window.showSaveFilePicker present, absent, a throw of createObjectURL, or a
\* throw of getCanvasData, createElement or link.click, all of which precede
\* setImages.  The URL of the saved file is created and released within the
\* branch (lines 1151-1152 and 1180-1181, 1185-1186 and 1216-1217); a throw
\* after its creation leaves it live and in objectUrlsToCleanup.
SavePaths == {"native", "fallback", "throw", "throw:listed"}

\* Mutant: a commit sets globalCropSettings in global mode only
CommittedGlobal_ByPolicy(newCropSettings) ==
  IF isPerImageCrop THEN globalCropSettings ELSE Some(newCropSettings)

\* setGlobalCropSettings(newCropSettings) (lines 1178, 1214, 1223)
CommittedGlobal(newCropSettings) == Some(newCropSettings)

CropSave(path) ==
  /\ crop /= Null
  /\ LET f == crop[1]
         data == FrameData(f)
         newCropSettings == NewCropSettings(f)
         native ==
           [k \in Each |-> NativeSaved(images[k], newCropSettings, cropper.canvasData, data)]
         fallback == [k \in Each |-> FallbackSaved(images[k], newCropSettings, data)]
         failed == [k \in Each |-> SaveFailed(images[k], newCropSettings)]
     IN /\ images' = CASE path = "native" -> MapById(images, f.image.id, native)
                       [] path = "fallback" -> MapById(images, f.image.id, fallback)
                       [] OTHER -> MapById(images, f.image.id, failed)
        /\ globalCropSettings' = CommittedGlobal(newCropSettings)
  /\ SetResources(IF path = "throw:listed"
                    THEN CreateForCleanup(Resources, SaveUrl(nCrops))
                    ELSE Resources)
  /\ Close
  /\ crop' = Null
  /\ lastOp' = IF path \in {"native", "fallback"} THEN "crop:saved" ELSE "crop:failed"
  /\ UNCHANGED <<ingestRest, toasts, currentImage, isPerImageCrop, originalDimensions,
                 selectedAspectRatio, saveOnCancel, initialCropSettings, opening,
                 nOpens, nCrops, conv, mounted>>

\* Mutant: the reset of a cancel empties the cropHistory too
CancelCleared_History(img) ==
  [img EXCEPT !.cropSettings = NoSettings, !.canvasData = NoCanvasData,
              !.cropHistory = <<>>]

\* Mutant: the reset of a cancel keeps the canvas geometry
CancelCleared_SettingsOnly(img) == [img EXCEPT !.cropSettings = NoSettings]

\* The record written by a cancel in per-image mode without save-on-cancel
\* (lines 1280-1292)
CancelCleared(img) ==
  [img EXCEPT !.cropSettings = NoSettings, !.canvasData = NoCanvasData]

\* handleCancel (lines 1248-1302), with the destroy and the close
HandleCancel ==
  /\ isOpen
  /\ IF cropper.alive /\ currentImage /= Null /\ initialCropSettings /= Null
     THEN LET currentData == GetData(cropper)
              newCropSettings ==
                [x |-> currentData.x, y |-> currentData.y,
                 width |-> currentData.width, height |-> currentData.height,
                 aspectRatio |->
                   getAspectRatioFromSelection(selectedAspectRatio, originalDimensions)]
              kept == [k \in Each |->
                        [images[k] EXCEPT !.cropSettings = Some(newCropSettings),
                                          !.canvasData = Some(cropper.canvasData)]]
              cleared == [k \in Each |-> CancelCleared(images[k])]
          IN /\ images' = IF saveOnCancel /\ isPerImageCrop
                            THEN MapById(images, currentImage[1].id, kept)
                          ELSE IF ~saveOnCancel /\ isPerImageCrop
                            THEN MapById(images, currentImage[1].id, cleared)
                          ELSE images
             /\ globalCropSettings' = IF saveOnCancel /\ ~isPerImageCrop
                                        THEN Some(newCropSettings)
                                      ELSE globalCropSettings
             /\ selectedAspectRatio' = IF ~saveOnCancel THEN "free" ELSE selectedAspectRatio
     ELSE UNCHANGED <<images, globalCropSettings, selectedAspectRatio>>
  /\ Close
  /\ lastOp' = "cancel"
  /\ UNCHANGED <<ingestRest, toasts, currentImage, isPerImageCrop, originalDimensions,
                 saveOnCancel, initialCropSettings, opening, crop, nOpens, nCrops, conv,
                 resourceVars>>

\* The Modal's own onClose (line 1733): Escape or a click outside the editor
ModalDismiss ==
  /\ isOpen
  /\ Close
  /\ lastOp' = "dismiss"
  /\ UNCHANGED <<images, ingestRest, toasts, currentImage, globalCropSettings,
                 isPerImageCrop, originalDimensions, selectedAspectRatio, saveOnCancel,
                 initialCropSettings, opening, crop, nOpens, nCrops, conv, resourceVars>>

NextEditor ==
  \/ CropMemoryChange
  \/ SaveOnCancelChange
  \/ \E i \in 1..Len(images) : OpenCropModal(i)
  \/ OpenOnload
  \/ OpenOnerror
  \/ CropperReady
  \/ \E r \in DragRects : CropEvent(r)
  \/ HandleCrop
  \/ CropNoBlob
  \/ \E path \in SavePaths : CropSave(path)
  \/ HandleCancel
  \/ ModalDismiss
  \/ \E id \in Ids : Delete(id)

\* The sessions the editor is exercised on, as one processFiles batch of two
\* files of one name builds them: the records made within one millisecond, and
\* a millisecond apart
CropSessions ==
  LET two(f1, t1, f2, t2) == AddImage(AddImage(<<>>, NewImage(f1, t1, ImageUrl(1, 1))),
                                      NewImage(f2, t2, ImageUrl(1, 2)))
  IN { two(GoodFile(1), 0, OtherCopy(1), 0),
       two(GoodFile(1), 0, OtherCopy(1), 1) }

\* The state in which that batch leaves the program once its notices are flushed
AfterBatch ==
  /\ InitEditor
  /\ images \in CropSessions
  /\ isProcessing = FALSE
  /\ processingTimeoutRef = TRUE
  /\ debounce = <<>>
  /\ batch = IdleBatch
  /\ fadePending = FALSE
  /\ toastQueue = <<>>
  /\ toasts = <<>>
  /\ now = Last(images).id[2]
  /\ nCalls = 1
  /\ nDeletes = 0
  /\ menu = "types"
  /\ removed = 0
  /\ objectUrlsToCleanup = <<ImageUrl(1, 1), ImageUrl(1, 2)>>
  /\ blobUrls = [live |-> {ImageUrl(1, 1), ImageUrl(1, 2)}, again |-> {}, late |-> {}]
  /\ mounted = TRUE
  /\ conv = NoConv

InitCrop == AfterBatch /\ lastOp = "init"

SpecCrop == InitCrop /\ [][NextEditor]_vars

\* The editor with its numeric fields, on the Session that a batch of one file
\* leaves
SessionEdits == {<<"width", 0>>, <<"x", Units(20000)>>}

NextEditing ==
  \/ NextEditor
  \/ \E kv \in SessionEdits : NumericCommit(kv[1], kv[2])
  \/ \E value \in Selections : AspectChange(value)

InitEditing ==
  /\ InitEditor
  /\ images = AddImage(<<>>, NewImage(GoodFile(1), 0, ImageUrl(1, 1)))
  /\ isProcessing = FALSE
  /\ processingTimeoutRef = TRUE
  /\ debounce = <<>>
  /\ batch = IdleBatch
  /\ fadePending = FALSE
  /\ toastQueue = <<>>
  /\ toasts = <<>>
  /\ now = 0
  /\ nCalls = 1
  /\ nDeletes = 0
  /\ menu = "types"
  /\ removed = 0
  /\ objectUrlsToCleanup = <<ImageUrl(1, 1)>>
  /\ blobUrls = [live |-> {ImageUrl(1, 1)}, again |-> {}, late |-> {}]
  /\ mounted = TRUE
  /\ conv = NoConv
  /\ lastOp = "init"

SpecEditing == InitEditing /\ [][NextEditing]_vars

\* The editor with the switch of the policy recorded, on the same Session
NextPolicy ==
  \/ CropMemoryRecorded
  \/ SaveOnCancelChange
  \/ \E i \in 1..Len(images) : OpenCropModal(i)
  \/ OpenOnload
  \/ CropperReady
  \/ \E r \in DragRects : CropEvent(r)
  \/ \E value \in Selections : AspectChange(value)
  \/ HandleCrop
  \/ \E path \in SavePaths : CropSave(path)
  \/ HandleCancel
  \/ ModalDismiss

SpecPolicy == InitEditing /\ [][NextPolicy]_vars

\* The editor with numbers typed into its fields and the crop box dragged to
\* rectangles on both sides of CROP_SIZE.MIN in either dimension: 0.5 x 2.5,
\* 2.5 x 0.5, 0 x 0.5, 1 x 1 and 1.5 x 1 pixels, and the two of DragRects
EventRects ==
  DragRects \cup
  { [x |-> Scale, y |-> 1, width |-> 2 * Scale + 1, height |-> 1],
    [x |-> 0, y |-> 0, width |-> 0, height |-> 1],
    [x |-> Scale, y |-> Scale, width |-> Scale, height |-> Scale],
    [x |-> 1, y |-> 0, width |-> Scale + 1, height |-> Scale] }

NextDrag ==
  \/ CropMemoryChange
  \/ SaveOnCancelChange
  \/ \E i \in 1..Len(images) : OpenCropModal(i)
  \/ OpenOnload
  \/ CropperReady
  \/ \E r \in EventRects : CropEvent(r)
  \/ \E key \in Keys, value \in TypedValues : NumericKeystroke(key, value)
  \/ HandleCancel
  \/ ModalDismiss

SpecDrag == InitEditing /\ [][NextDrag]_vars

\* handleCropEvent and handleCropperReady called without a surface: an event
\* of the crop surface that is delivered once cropperRef holds no cropper (the
\* surface was destroyed, or the editor never mounted one) returns at lines
\* 972-974 and 996-999.  handler is "cropEvent" or "ready".
SurfaceHandlers == {"cropEvent", "ready"}

SurfaceEventIgnored(handler) ==
  /\ ~cropper.alive
  /\ nOpens > 0
  /\ lastOp' = handler \o ":ignored"
  /\ UNCHANGED <<ingestVars, editorVars, resourceVars, conv>>

\* The editor on the Session of one image, with every way out of it and the
\* events of a surface that is gone
NextExit ==
  \/ CropMemoryChange
  \/ SaveOnCancelChange
  \/ \E i \in 1..Len(images) : OpenCropModal(i)
  \/ OpenOnload
  \/ OpenOnerror
  \/ CropperReady
  \/ \E r \in DragRects : CropEvent(r)
  \/ HandleCrop
  \/ CropNoBlob
  \/ \E path \in SavePaths : CropSave(path)
  \/ HandleCancel
  \/ ModalDismiss
  \/ \E handler \in SurfaceHandlers : SurfaceEventIgnored(handler)

SpecExit == InitEditing /\ [][NextExit]_vars

\* The rectangles the crop box is dragged to within the 16 x 20 image: the whole
\* image, 15.5 x 19.5 at (0.5, 0.5), 14.5 x 1.5 at (1, 0) and 1 x 2.5 at
\* (0.5, 1.5) pixels
EdgeRects ==
  { [x |-> 0, y |-> 0, width |-> Units(16), height |-> Units(20)],
    [x |-> 1, y |-> 1, width |-> Units(16) - 1, height |-> Units(20) - 1],
    [x |-> Scale, y |-> 0, width |-> Units(15) - 1, height |-> Scale + 1],
    [x |-> 1, y |-> Scale + 1, width |-> Scale, height |-> 2 * Scale + 1] }

\* The editor with the crop box dragged along the edges, and its commits
NextRound ==
  \/ \E i \in 1..Len(images) : OpenCropModal(i)
  \/ OpenOnload
  \/ CropperReady
  \/ \E r \in EdgeRects : CropEvent(r)
  \/ HandleCrop
  \/ \E path \in SavePaths : CropSave(path)
  \/ HandleCancel
  \/ ModalDismiss

SpecRound == InitEditing /\ [][NextRound]_vars

\* One opening of the editor, with every field and every entered value
NextEdit ==
  \/ CropMemoryChange
  \/ \E i \in 1..Len(images) : OpenCropModal(i)
  \/ OpenOnload
  \/ CropperReady
  \/ \E r \in DragRects : CropEvent(r)
  \/ \E value \in Selections : AspectChange(value)
  \/ \E key \in Keys, value \in EnteredValues : NumericCommit(key, value)

SpecEdit == InitEditing /\ [][NextEdit]_vars

----------------------------------------------------------------------------
(* The pure conversions of the crop coordinate engine, applied to operands *)
(* drawn from bounded sets.                                                *)

Extents == (1..MaxExtent) \cup {100, 1000}

DimValues ==
  {IMAGE_SIZE_MIN, IMAGE_SIZE_MIN + 1, IMAGE_SIZE_MIN + 4, IMAGE_SIZE_MAX - 1, IMAGE_SIZE_MAX}

\* Natural sizes of decoded images, at and on both sides of IMAGE_SIZE
NaturalSizes ==
  {8, IMAGE_SIZE_MIN - 1, IMAGE_SIZE_MIN, IMAGE_SIZE_MAX, IMAGE_SIZE_MAX + 1, 20000}

ConvInputs ==
  {[NoConv EXCEPT !.op = "size", !.v = voc[1], !.O = voc[2], !.C = voc[3]] :
     voc \in {t \in (0..(MaxExtent + 1000)) \X Extents \X Extents : t[1] <= t[2]}}
  \cup
  {[NoConv EXCEPT !.op = "ratio", !.s = s, !.dims = [width |-> wh[1], height |-> wh[2]]] :
     s \in {"free", "1:1", "original"}, wh \in DimValues \X DimValues}
  \cup
  {[NoConv EXCEPT !.op = "validate", !.dims = [width |-> wh[1], height |-> wh[2]],
                  !.probe = ok] :
     wh \in NaturalSizes \X NaturalSizes, ok \in BOOLEAN}

InitConv ==
  /\ InitEditor
  /\ InitIngest
  /\ InitResources
  /\ menu = "ranges"
  /\ lastOp = "init"
  /\ conv \in ConvInputs

ToDisplaySize ==
  /\ conv.op = "size"
  /\ conv.stage = 0
  /\ \E d \in convertToDisplaySize(conv.v, conv.O, conv.C) :
       conv' = [conv EXCEPT !.d = d, !.stage = 1]
  /\ lastOp' = "convertToDisplaySize"
  /\ UNCHANGED <<ingestVars, editorVars, resourceVars>>

ToActualSize ==
  /\ conv.op = "size"
  /\ conv.stage = 1
  /\ \E a \in convertToActualSize(conv.d, conv.O, conv.C) :
       conv' = [conv EXCEPT !.a = a, !.stage = 2]
  /\ lastOp' = "convertToActualSize"
  /\ UNCHANGED <<ingestVars, editorVars, resourceVars>>

ToAspectRatio ==
  /\ conv.op = "ratio"
  /\ conv.stage = 0
  /\ conv' = [conv EXCEPT !.ratio = getAspectRatioFromSelection(conv.s, Some(conv.dims)),
                          !.stage = 1]
  /\ lastOp' = "getAspectRatioFromSelection"
  /\ UNCHANGED <<ingestVars, editorVars, resourceVars>>

ToSelection ==
  /\ conv.op = "ratio"
  /\ conv.stage = 1
  /\ conv' = [conv EXCEPT !.back = getSelectionFromAspectRatio(conv.ratio, Some(conv.dims)),
                          !.stage = 2]
  /\ lastOp' = "getSelectionFromAspectRatio"
  /\ UNCHANGED <<ingestVars, editorVars, resourceVars>>

\* img.onload of validateImage (lines 637-670) on an image of the given natural
\* size; probe is whether the 1x1 draw-and-read succeeds
ValidateOnload ==
  /\ conv.op = "validate"
  /\ conv.stage = 0
  /\ conv' = [conv EXCEPT
                !.result = OnloadResult(Loads(conv.dims.width, conv.dims.height, conv.probe)),
                !.stage = 1]
  /\ lastOp' = "validateImage:onload"
  /\ UNCHANGED <<ingestVars, editorVars, resourceVars>>

NextConv == ToDisplaySize \/ ToActualSize \/ ToAspectRatio \/ ToSelection \/ ValidateOnload

SpecConv == InitConv /\ [][NextConv]_vars

----------------------------------------------------------------------------
(* Properties of the ingestion pipeline *)

\* A step that ends the running batch's loop
BatchEnds == batch.pc = "validating" /\ batch'.pc = "idle"

\* C1: in every reachable state the Session holds at most 10 image records.
C1_Capacity == Len(images) <= MAX_IMAGES

\* An admission has filled the Session to 10 after a deletion made room
C1_Witness == Len(images) = MAX_IMAGES /\ nDeletes > 0 /\ lastOp = "onload"

\* Every record of images is in images' as it was
Preserved == \A i \in 1..Len(images) : Count(images[i], images') >= Count(images[i], images)

\* C2: every step other than an explicit deletion keeps every existing record
\* with every field as it was, and the Session size decreases only in a deletion.
C2_AdmissionFrame ==
  [][ /\ (lastOp' /= "delete" => Preserved)
      /\ (Len(images') < Len(images) => lastOp' = "delete") ]_vars

\* A second batch has added a record to a Session from which one was deleted
C2_Witness ==
  nCalls = 2 /\ nDeletes = 1 /\ lastOp = "onload" /\ Len(images) >= 2 /\ batch.i >= 2

\* C3 (state part): at most one batch is scheduled or running.
AtMostOneBatch == Len(debounce) + (IF Validating THEN 1 ELSE 0) <= 1

\* C3 (step part): a processFiles call made while isProcessing is set changes
\* neither the Session, the pending timer, the running batch nor its notices.
BusyCallIsNoOp ==
  (isProcessing /\ lastOp' \in {"processFiles", "processFiles:dropped"})
    => UNCHANGED <<images, isProcessing, processingTimeoutRef, debounce, batch,
                   fadePending, toastQueue, toasts>>

\* C3: admissions do not overlap, and a call during one is dropped.
C3_NonOverlapping == []AtMostOneBatch /\ [][BusyCallIsNoOp]_vars

\* A call was dropped while a batch was validating its second file
C3_Witness == lastOp = "processFiles:dropped" /\ Validating /\ batch.i >= 2 /\ isProcessing

\* The notices the timer callback has collected when its synchronous part ends
CollectedAfterTimer == IF batch'.pc = "validating" THEN batch'.messages ELSE Last(toastQueue')

\* C4 (never admitted): a record that a step adds does not carry a filename that
\* a record of the Session had when processFiles was called.
DuplicateNeverAdded ==
  \A j \in 1..Len(images') :
    Count(images'[j], images') > Count(images'[j], images)
      => images'[j].file.name \notin ExistingFilenames(batch.images)

\* C4 (counted): when the batch reaches the duplicate filter, the candidates
\* whose filename is in the Session are all dropped and the duplicate notice
\* carries their number.
DuplicateCounted ==
  lastOp' = "timer" =>
    LET t == Head(debounce)
        candidates == ImageFiles(t.files)
        isDup(f) == f.name \in ExistingFilenames(t.images)
        dups == SelectSeq(candidates, isDup)
    IN (RemainingSlots(t.images) > 0 /\ Len(dups) > 0)
         => /\ DuplicateMessage(Len(dups)) \in Range(CollectedAfterTimer)
            /\ \A k \in 1..Len(batch'.files) : ~isDup(batch'.files[k])

\* C4: a candidate with the filename of a record of the Session is dropped and
\* counted in the duplicate notice; it never becomes a record.
C4_DuplicateDropped == [][DuplicateNeverAdded /\ DuplicateCounted]_vars

\* The timer callback dropped duplicates of a non-empty Session and went on to
\* validate the rest
C4_Witness ==
  /\ lastOp = "timer"
  /\ Validating
  /\ Len(images) > 0
  /\ \E n \in 1..MAX_IMAGES : DuplicateMessage(n) \in Range(batch.messages)

\* C5: no two records of the Session share a filename.
C5_UniqueFilenames ==
  \A i, j \in 1..Len(images) : i /= j => images[i].file.name /= images[j].file.name

\* n accepted-type, valid, distinct-named, non-duplicate files, more than the
\* f > 0 free slots
PlainOverflow(files, closureImages) ==
  /\ \A k \in 1..Len(files) :
       /\ TypeVerdict(files[k]) = "ok"
       /\ files[k].decode.ev = "load"
       /\ OnloadResult(files[k].decode) = "valid"
       /\ files[k].name \notin ExistingFilenames(closureImages)
       /\ \A l \in 1..Len(files) : l /= k => files[l].name /= files[k].name
  /\ RemainingSlots(closureImages) > 0
  /\ Len(files) > RemainingSlots(closureImages)

OnePartialNotice ==
  Last(toastQueue') =
    <<PartialMessage(RemainingSlots(batch.images),
                     Len(batch.all) - RemainingSlots(batch.images))>>

FillsToLimitWithoutDeletion ==
  [][ (BatchEnds /\ PlainOverflow(batch.all, batch.images))
        => /\ Len(batch.files) = RemainingSlots(batch.images)
           /\ OnePartialNotice
           /\ (removed = 0 => Len(images') = MAX_IMAGES) ]_vars

\* A file of accepted declared type and size whose extension is not one of the
\* extensions listed for that type
ExtensionMismatch(f) ==
  /\ f.type \in {"image/jpeg", "image/png", "image/gif", "image/webp"}
  /\ f.size <= MAX_FILE_SIZE
  /\ LET ext == getFileExtension(f.name)
     IN CASE f.type = "image/jpeg" -> ext \notin {<<"jpg">>, <<"jpeg">>}
          [] f.type = "image/png" -> ext /= <<"png">>
          [] f.type = "image/gif" -> ext /= <<"gif">>
          [] f.type = "image/webp" -> ext /= <<"webp">>

\* C11 (never admitted): no record of the Session holds such a file.
MismatchNeverAdmitted == \A i \in 1..Len(images) : ~ExtensionMismatch(images[i].file)

\* C11 (noticed): when the batch reaches the type filter, each such file is left
\* out of the files to validate, the step leaves the Session as it is, and the
\* notices collected hold one mismatch notice with its filename and declared
\* type for each.
MismatchNoticed ==
  lastOp' = "timer" =>
    LET t == Head(debounce)
        mism == {k \in 1..Len(t.files) : ExtensionMismatch(t.files[k])}
        notice(k) == MimeMismatchMessage(t.files[k].name, t.files[k].type)
    IN RemainingSlots(t.images) > 0 =>
         /\ images' = images
         /\ \A k \in mism :
              /\ \A j \in 1..Len(batch'.files) : batch'.files[j] /= t.files[k]
              /\ Count(notice(k), CollectedAfterTimer)
                   = Cardinality({j \in mism : notice(j) = notice(k)})

\* C11: a file of accepted type and size with an extension that does not belong
\* to its declared type is never admitted and draws a mismatch notice that names
\* the file and the declared type.
C11_MismatchRejected == []MismatchNeverAdmitted /\ [][MismatchNoticed]_vars

\* The notice for a.JPG declared as image/png is shown, and the well-formed file
\* of the same batch is the only record
C11_Witness ==
  /\ lastOp = "flush"
  /\ MimeMismatchMessage(<<"a", ".", "JPG">>, "image/png") \in Range(toasts)
  /\ Len(images) = 1
  /\ images[1].file = GoodFile(1)

\* A processFiles call with these files, from a file selection or a drop
Call(files) == Len(files) > 0 /\ (FileChange(files) \/ Drop(files))

\* C14: a call made while the debounce timer of an earlier call is pending
\* cancels that timer and schedules its own files in its place.
C14_NewestReplaces ==
  [][ \A files \in Offered :
        (debounce /= <<>> /\ Call(files))
          => (Len(debounce') = 1 /\ debounce'[1].files = files) ]_vars

----------------------------------------------------------------------------
(* Properties of the crop state manager *)

\* A step in which a handleCrop call passes its save step (either path)
SaveStep == crop /= Null /\ lastOp' = "crop:saved"

\* A step in which the save step of a handleCrop call throws
FailedSaveStep == crop /= Null /\ lastOp' = "crop:failed"

\* The record at position i is the image the handleCrop call was made for
Committed(i) == images[i].id = crop[1].image.id /\ images[i].file = crop[1].image.file

\* The surface the handleCrop call holds is still the mounted one
SurfaceHeld == cropper.alive /\ cropper.ready /\ cropper.inst = crop[1].inst

RoundedSurfaceRect ==
  [x |-> Round(cropper.data.x), y |-> Round(cropper.data.y),
   width |-> Round(cropper.data.width), height |-> Round(cropper.data.height)]

CommitApplied ==
  \A i \in 1..Len(images) :
    IF Committed(i)
    THEN /\ images'[i].cropped
         /\ Len(images'[i].cropHistory) = Len(images[i].cropHistory) + 1
         /\ SubSeq(images'[i].cropHistory, 1, Len(images[i].cropHistory)) = images[i].cropHistory
         /\ SurfaceHeld => Last(images'[i].cropHistory) = RoundedSurfaceRect
    ELSE /\ images'[i].cropped = images[i].cropped
         /\ images'[i].cropHistory = images[i].cropHistory

\* C6: a commit whose save step does not fail leaves the committed image cropped,
\* with the rounded rectangle of the surface appended to its cropHistory, and
\* leaves cropped and cropHistory of every other record as they were.
C6_CommitApplied == [][SaveStep => CommitApplied]_vars

UniqueIds == \A i, j \in 1..Len(images) : i /= j => images[i].id /= images[j].id

\* What holds of C6 as long as no two records share an id
CommitAppliedUnderUniqueIds == [][(SaveStep /\ UniqueIds) => CommitApplied]_vars

\* C7: when the save step fails, cropped and cropHistory of the image are as
\* they were, its cropSettings are the rectangle the surface held, with the
\* aspect ratio of the active settings, and the editor is closed.
C7_FailedSave ==
  [][ FailedSaveStep =>
        /\ \A i \in 1..Len(images) :
             images[i].id = crop[1].image.id =>
               /\ images'[i].cropped = images[i].cropped
               /\ images'[i].cropHistory = images[i].cropHistory
               /\ images'[i].cropSettings /= NoSettings
               /\ Rect(images'[i].cropSettings[1]) = FrameData(crop[1])
               /\ SurfaceHeld => Rect(images'[i].cropSettings[1]) = cropper.data
        /\ ~isOpen' ]_vars

\* A second commit of an image failed in its save step: the record keeps the one
\* entry of the first commit and holds the fractional rectangle of the attempt
C7_Witness ==
  /\ lastOp = "crop:failed"
  /\ ~isOpen
  /\ nCrops = 2
  /\ \E i \in 1..Len(images) :
       /\ images[i].id = currentImage[1].id
       /\ images[i].cropped
       /\ Len(images[i].cropHistory) = 1
       /\ images[i].cropSettings /= NoSettings
       /\ images[i].cropSettings[1].x = 1
       /\ images[i].cropSettings[1].height = 2 * Scale + 1

----------------------------------------------------------------------------
(* Properties of the conversions *)

RoundTripDone == conv.op = "size" /\ conv.stage = 2

\* C8: toActual(toDisplay(v, O, C), O, C) differs from v by at most 1.
C8_RoundTripWithinOne == RoundTripDone => Abs(conv.a - conv.v) <= 1

\* C8 amended: the round trip differs from v by at most O/(2C) + 1/2, and so by
\* at most 1 whenever O < 3C.
C8_RoundTripBound ==
  RoundTripDone =>
    /\ 2 * conv.C * Abs(conv.a - conv.v) <= conv.O + conv.C
    /\ conv.O < 3 * conv.C => Abs(conv.a - conv.v) <= 1

\* A round trip through a container smaller than the original that lost a unit
C8_Witness ==
  RoundTripDone /\ conv.C < conv.O /\ conv.O < 3 * conv.C /\ Abs(conv.a - conv.v) = 1

SelectionDone == conv.op = "ratio" /\ conv.stage = 2

\* C9: mapping a selector to its ratio and back, with the same dimensions,
\* returns the selector.
C9_SelectorRoundTrip == SelectionDone => conv.back = conv.s

\* C9 amended: the round trip returns free and square always, and original
\* when the width differs from the height; on an image whose width equals its
\* height original comes back as square.
C9_SelectorRoundTripUnlessSquare ==
  SelectionDone =>
    /\ conv.s \in {"free", "1:1"} => conv.back = conv.s
    /\ (conv.s = "original" /\ conv.dims.width /= conv.dims.height) => conv.back = "original"
    /\ (conv.s = "original" /\ conv.dims.width = conv.dims.height) => conv.back = "1:1"

\* original on a 10000 x 10000 image has come back as square
C9_Witness ==
  /\ SelectionDone
  /\ conv.s = "original"
  /\ conv.dims.width = IMAGE_SIZE_MAX
  /\ conv.dims.height = IMAGE_SIZE_MAX
  /\ conv.back = "1:1"

----------------------------------------------------------------------------
(* Properties of the validator *)

ValidateDone == conv.op = "validate" /\ conv.stage = 1

BelowMin == conv.dims.width < 16 \/ conv.dims.height < 16
AboveMax == conv.dims.width > 10000 \/ conv.dims.height > 10000
PassesDimensionCheck == conv.result \in {"valid", "corrupt"}

\* C12: a decoded image is too_small when an axis is below 16, too_large when an
\* axis is above 10000, and passes the dimension check exactly when both axes
\* lie in [16, 10000].
C12_DimensionCheck ==
  ValidateDone =>
    /\ BelowMin => conv.result = "too_small"
    /\ AboveMax => conv.result = "too_large"
    /\ PassesDimensionCheck <=> (~BelowMin /\ ~AboveMax)

\* C12 amended: too_small has precedence; an image is too_large when an axis is
\* above 10000 and neither is below 16.  An image that passes the dimension
\* check is valid exactly when the pixel probe succeeds.
C12_DimensionCheckOrdered ==
  ValidateDone =>
    /\ BelowMin => conv.result = "too_small"
    /\ (AboveMax /\ ~BelowMin) => conv.result = "too_large"
    /\ PassesDimensionCheck <=> (~BelowMin /\ ~AboveMax)
    /\ (~BelowMin /\ ~AboveMax) => (conv.result = "valid" <=> conv.probe)

\* An image 15 wide and 10001 high was rejected as too_small
C12_Witness ==
  /\ ValidateDone
  /\ conv.dims = [width |-> IMAGE_SIZE_MIN - 1, height |-> IMAGE_SIZE_MAX + 1]
  /\ conv.result = "too_small"

----------------------------------------------------------------------------
(* Properties of the numeric fields *)

\* A crop rectangle of the image: within its extent, each side at least 1 pixel
WithinImage(r, dims) ==
  /\ 0 <= r.x
  /\ 0 <= r.y
  /\ r.x + r.width <= Units(dims.width)
  /\ r.y + r.height <= Units(dims.height)
  /\ r.width >= Units(1)
  /\ r.height >= Units(1)

\* The commits of a number made while the surface held a crop rectangle
Commits ==
  {k \in 1..Len(edit.log) :
     /\ edit.log[k].key \in {"x", "y", "width", "height"}
     /\ edit.log[k].ready
     /\ WithinImage(edit.log[k].current, edit.log[k].dims)}

\* C13: the rectangle that a committed numeric edit gives to the surface has x in
\* [0, imageWidth - currentWidth], y in [0, imageHeight - currentHeight], width
\* in [1, imageWidth - currentX] and height in [1, imageHeight - currentY].
C13_NumericClamp ==
  \A k \in Commits :
    LET e == edit.log[k]
    IN /\ 0 <= e.pushed.x
       /\ e.pushed.x <= Units(e.dims.width) - e.current.width
       /\ 0 <= e.pushed.y
       /\ e.pushed.y <= Units(e.dims.height) - e.current.height
       /\ Units(1) <= e.pushed.width
       /\ e.pushed.width <= Units(e.dims.width) - e.current.x
       /\ Units(1) <= e.pushed.height
       /\ e.pushed.height <= Units(e.dims.height) - e.current.y

\* Width 0 was committed with the crop box at x = 0, and width 1 was given to
\* the surface
C13_Witness ==
  \E k \in Commits :
    /\ edit.log[k].key = "width"
    /\ edit.log[k].value = 0
    /\ edit.log[k].current.x = 0
    /\ edit.log[k].pushed.width = Units(1)
    /\ lastOp = "numeric"

----------------------------------------------------------------------------
(* Properties of the object URLs *)

Listed == {objectUrlsToCleanup[k] : k \in 1..Len(objectUrlsToCleanup)}
ProbeUrls(urls) == {u \in urls : u[1] = "probe"}
ImageUrls(urls) == {u \in urls : u[1] = "image"}
HandlesOf(imgs) == {imgs[i].url : i \in 1..Len(imgs)}

\* C15: the URL that a validation creates for probing is released exactly once:
\* it is live only while its validation is pending, and it is never revoked a
\* second time, whichever of load, error and timeout ends the validation and
\* also when the image loads or fails after the timeout.
C15_ProbeReleasedOnce ==
  /\ ProbeUrls(blobUrls.again) = {}
  /\ \A u \in ProbeUrls(blobUrls.live) : Validating /\ u = CurrentProbe

\* C16 (held): the handle of every record is live and in the list while the
\* component is mounted, no handle of an image was revoked twice, and none of a
\* record is live after the teardown.
HandlesHeld ==
  /\ mounted => HandlesOf(images) \subseteq (blobUrls.live \cap Listed)
  /\ ImageUrls(blobUrls.again) = {}
  /\ ~mounted => HandlesOf(images) \cap blobUrls.live = {}

\* The records that a step removes
Removed == {i \in 1..Len(images) : \A j \in 1..Len(images') : images'[j] /= images[i]}

\* C16 (deletion): a deletion releases the handle of every record it removes and
\* takes it off the list.
DeletionReleases ==
  lastOp' = "delete" =>
    \A i \in Removed : /\ images[i].url \notin blobUrls'.live
                       /\ images[i].url \notin {objectUrlsToCleanup'[k] :
                                                  k \in 1..Len(objectUrlsToCleanup')}

\* C16 (teardown): the teardown revokes exactly the URLs of the list and empties
\* the list.
TeardownReleasesListed ==
  lastOp' = "teardown" =>
    /\ blobUrls'.live = blobUrls.live \ Listed
    /\ blobUrls'.again = blobUrls.again \cup (Listed \ blobUrls.live)
    /\ objectUrlsToCleanup' = <<>>

\* C16: the handle of every admitted image is released exactly once, by the
\* deletion of its record or by the teardown, and is in the list until then.
C16_HandleReleasedOnce ==
  []HandlesHeld /\ [][DeletionReleases /\ TeardownReleasesListed]_vars

\* The same, for the deletions made while no two records share an id
HandleReleasedOnceWithUniqueIds ==
  []HandlesHeld /\ [][UniqueIds => (DeletionReleases /\ TeardownReleasesListed)]_vars

----------------------------------------------------------------------------
(* Properties of the stores of crop settings *)

IsPrefix(s, t) == Len(s) <= Len(t) /\ SubSeq(t, 1, Len(s)) = s

\* The record at position j after the step is the record at position i before
\* it: a record keeps its object URL for as long as it exists
SameRecord(i, j) == images'[j].url = images[i].url

\* C17: every step of the editor (open, drag, numeric edit, aspect change,
\* commit, cancel, either toggle) leaves the cropHistory of every record that
\* still exists with its earlier value as a prefix; so does every sequence of
\* steps.
C17_HistoryAppendOnly ==
  [][ \A i \in 1..Len(images), j \in 1..Len(images') :
        SameRecord(i, j) => IsPrefix(images[i].cropHistory, images'[j].cropHistory) ]_vars

\* A cancel cleared the cropSettings of an image that had been committed once and
\* edited through a numeric field or the ratio, and its cropHistory holds the entry
C17_Witness ==
  /\ lastOp = "cancel"
  /\ edit.n > 0
  /\ Len(images) = 1
  /\ images[1].cropSettings = NoSettings
  /\ Len(images[1].cropHistory) = 1

\* A step in which a handleCrop call goes through its save step, on any path
CommitStep == crop /= Null /\ lastOp' \in {"crop:saved", "crop:failed"}

\* C18 (switch): the switch of the policy leaves both stores as they are.
ToggleKeepsStores ==
  isPerImageCrop' /= isPerImageCrop =>
    images' = images /\ globalCropSettings' = globalCropSettings

\* C18 (switch back): at a switch, the store of the mode that is entered holds
\* the values it held when that mode was left.
SwitchBackRestores ==
  (isPerImageCrop' /= isPerImageCrop /\ edit.left /= Null) =>
    IF isPerImageCrop
    THEN globalCropSettings = edit.left[1]
    ELSE \A i \in 1..Len(images) :
           images[i].url \in DOMAIN edit.left[1] =>
             images[i].cropSettings = edit.left[1][images[i].url]

\* C18: switching the policy alters neither store, and after a switch from A to
\* B, any editing in B and the switch back to A, the store of A holds the values
\* it held before the first switch.
C18_SwitchBackRestores == [][ToggleKeepsStores /\ SwitchBackRestores]_vars

\* The store of the mode that is not in force is left as it is by the step
OtherStoreKept ==
  IF isPerImageCrop
  THEN globalCropSettings' = globalCropSettings
  ELSE \A i \in 1..Len(images), j \in 1..Len(images') :
         SameRecord(i, j) => images'[j].cropSettings = images[i].cropSettings

\* The save step of a commit writes the settings of the commit to the record of
\* the image and to globalCropSettings
CommitWritesBoth ==
  LET newCropSettings == NewCropSettings(crop[1])
  IN /\ globalCropSettings' = Some(newCropSettings)
     /\ \A i \in 1..Len(images) :
          images[i].id = crop[1].image.id => images'[i].cropSettings = Some(newCropSettings)

\* C18 amended: switching the policy alters neither store, and every editing
\* step in a mode other than the save step of a commit (open, drag, numeric
\* edit, aspect change, cancel) leaves the store of the other mode as it is, so
\* that store holds its prior values at the switch back; a commit writes the
\* cropSettings of the image and GlobalCropSettings in either mode.
C18_OnlyCommitWritesOtherStore ==
  [][ /\ ToggleKeepsStores
      /\ ~CommitStep => OtherStoreKept
      /\ CommitStep => CommitWritesBoth ]_vars

\* The policy was switched from per-image to global, the editor was opened and
\* closed in global mode with no commit and wrote GlobalCropSettings, and the
\* policy was switched back: no record holds cropSettings, as at the first
\* switch
C18_Witness ==
  /\ lastOp = "memory"
  /\ isPerImageCrop
  /\ nCrops = 0
  /\ nOpens = 1
  /\ edit.left /= Null
  /\ edit.left[1] = globalCropSettings
  /\ globalCropSettings /= Null
  /\ Len(images) > 0
  /\ \A i \in 1..Len(images) : images[i].cropSettings = NoSettings

\* C19 (commit): the save step of a commit, on every path and in either mode,
\* sets globalCropSettings to the rectangle and the aspect ratio of the commit.
CommitSetsGlobal == CommitStep => globalCropSettings' = Some(NewCropSettings(crop[1]))

\* C19 (seed): an editor that opens in global mode starts from the
\* globalCropSettings that were set when it was opened.
SeededByGlobal ==
  (/\ opening /= Null
   /\ lastOp' = "open:onload"
   /\ ~opening[1].isPerImageCrop
   /\ opening[1].globalCropSettings /= Null)
  => /\ initialCropSettings' = opening[1].globalCropSettings
     /\ activeCropSettings' = opening[1].globalCropSettings[1]

\* C19: every commit that reaches the save step sets GlobalCropSettings to the
\* committed rectangle and aspect ratio, in per-image mode as in global mode and
\* on a failed save as on a success, and an editor opened afterwards in global
\* mode is seeded with it.
C19_CommitSetsGlobal == [][CommitSetsGlobal /\ SeededByGlobal]_vars

\* The first commit of a session failed in its save step in per-image mode, and
\* globalCropSettings holds the fractional rectangle of the attempt, as the
\* record does
C19_Witness ==
  /\ lastOp = "crop:failed"
  /\ isPerImageCrop
  /\ nOpens = 1
  /\ nCrops = 1
  /\ globalCropSettings /= Null
  /\ globalCropSettings[1].height = 2 * Scale + 1
  /\ \E i \in 1..Len(images) :
       /\ ~images[i].cropped
       /\ images[i].cropSettings = globalCropSettings

----------------------------------------------------------------------------
(* Properties of the capacity check *)

\* The timer callback of a processFiles call runs while the Session is full
ProcessedAtLimit == debounce /= <<>> /\ lastOp' = "timer" /\ Len(images) = MAX_IMAGES

\* C20: a batch processed while the Session has no remaining slot is rejected
\* whole: the Session is as it was, no file reaches the type filter or the
\* validation (no notice of either is collected, no validation is pending and no
\* probe URL is created), and the one notice of the batch is the at-limit notice
\* with the number of files of the batch.
C20_AtLimitRejected ==
  [][ ProcessedAtLimit =>
        /\ images' = images
        /\ batch' = IdleBatch
        /\ blobUrls' = blobUrls
        /\ objectUrlsToCleanup' = objectUrlsToCleanup
        /\ toastQueue' = Append(toastQueue, <<AtLimitMessage(Len(Head(debounce).files))>>)
        /\ fadePending' ]_vars

\* The batch of a text file and an oversized file was processed with 10 records
\* in the Session, and its only notice is the at-limit notice for 2 files
C20_Witness ==
  /\ lastOp = "timer"
  /\ Len(images) = MAX_IMAGES
  /\ batch = IdleBatch
  /\ toastQueue /= <<>>
  /\ Last(toastQueue) = <<AtLimitMessage(2)>>

----------------------------------------------------------------------------
(* Properties of the notices of a batch *)

\* The timer callback of a processFiles call runs with a free slot, so that its
\* files reach the type filter
ReachesTypeFilter ==
  debounce /= <<>> /\ lastOp' = "timer" /\ RemainingSlots(Head(debounce).images) > 0

\* The positions of files that the filter rejects with the given verdict
Rejected(files, verdict) == {k \in 1..Len(files) : TypeVerdict(files[k]) = verdict}

\* The notices of a type among the notices collected by the timer callback
NoticesOf(type) ==
  {k \in 1..Len(CollectedAfterTimer) : CollectedAfterTimer[k].type = type}

\* The files of the batch that the filter rejects for their size or extension
\* have one notice each
PerFileNotices ==
  LET files == Head(debounce).files
  IN /\ Cardinality(NoticesOf("file-size")) = Cardinality(Rejected(files, "size"))
     /\ Cardinality(NoticesOf("mime-mismatch")) = Cardinality(Rejected(files, "mismatch"))

\* C21: the invalid-type notice of a batch carries the number of files whose
\* declared type is not accepted, without the files rejected for their size or
\* extension, which have notices of their own.
C21_InvalidTypeCount ==
  [][ ReachesTypeFilter =>
        /\ PerFileNotices
        /\ \A k \in NoticesOf("invalid-type") :
             CollectedAfterTimer[k].count
               = Cardinality(Rejected(Head(debounce).files, "type")) ]_vars

\* C21 amended: the invalid-type notice of a batch carries the number of files
\* that the type stage rejects for any of its three reasons (type, size,
\* extension); there is one such notice when that number is positive and none
\* otherwise; each file rejected for its size or extension has a notice of its
\* own in addition.
C21_InvalidTypeCountsStage ==
  [][ ReachesTypeFilter =>
        LET files == Head(debounce).files
            failed == Rejected(files, "type") \cup Rejected(files, "size")
                        \cup Rejected(files, "mismatch")
        IN /\ PerFileNotices
           /\ Cardinality(NoticesOf("invalid-type")) = IF failed = {} THEN 0 ELSE 1
           /\ \A k \in NoticesOf("invalid-type") :
                CollectedAfterTimer[k].count = Cardinality(failed) ]_vars

\* A batch of a text file and an oversized image was filtered: a file-size
\* notice and an invalid-type notice for 2 files are shown
C21_Witness ==
  /\ lastOp = "flush"
  /\ Len(toasts) = 2
  /\ toasts[1].type = "file-size"
  /\ toasts[2] = InvalidTypeMessage(2)

\* The outcome of validateImage on a file: a decode that never ends runs into
\* the timeout
Outcome(file) ==
  IF file.decode.ev = "load" THEN OnloadResult(file.decode) ELSE "corrupt"

\* The positions of the files whose validation has the given outcome
WithOutcome(files, outcome) == {k \in 1..Len(files) : Outcome(files[k]) = outcome}

\* The candidates of a batch: its files that pass the type filter and the
\* duplicate filter, against the images the call closed over
Candidates(files, closureImages) == NonDuplicateFiles(ImageFiles(files), closureImages)

\* The batch that ends had more candidates than free slots
EndsOverflowing ==
  /\ BatchEnds
  /\ Len(Candidates(batch.all, batch.images)) > RemainingSlots(batch.images)

\* The limit notices among the notices of the batch that ends
LimitNotices ==
  {k \in 1..Len(Last(toastQueue')) : Last(toastQueue')[k].type = "limit"}

\* The timer callback validates no more candidates than there are free slots
ValidatesWithinSlots ==
  (debounce /= <<>> /\ lastOp' = "timer" /\ batch'.pc = "validating")
    => /\ Len(batch'.files) <= RemainingSlots(Head(debounce).images)
       /\ batch'.files = SubSeq(Candidates(Head(debounce).files, Head(debounce).images),
                                1, Len(batch'.files))

\* C22: no more candidates are validated than there are free slots, and a batch
\* with more candidates than free slots ends with exactly one limit notice, the
\* partial one, whose N is the number of images the batch added and whose M is
\* the number of candidates beyond the free slots.
C22_PartialNotice ==
  [][ /\ ValidatesWithinSlots
      /\ EndsOverflowing =>
           /\ Cardinality(LimitNotices) = 1
           /\ \A k \in LimitNotices :
                Last(toastQueue')[k] =
                  PartialMessage(Cardinality(WithOutcome(batch.files, "valid")),
                                 Len(Candidates(batch.all, batch.images))
                                   - RemainingSlots(batch.images)) ]_vars

\* What the code keeps of C22: N is the number of validated candidates that
\* were not corrupt, so that it counts the images of invalid dimensions also
PartialNoticeCountsNonCorrupt ==
  [][ /\ ValidatesWithinSlots
      /\ EndsOverflowing =>
           /\ Cardinality(LimitNotices) = 1
           /\ \A k \in LimitNotices :
                Last(toastQueue')[k] =
                  PartialMessage(Len(batch.files)
                                   - Cardinality(WithOutcome(batch.files, "corrupt")),
                                 Len(Candidates(batch.all, batch.images))
                                   - RemainingSlots(batch.images)) ]_vars

\* The place of a notice in the order of the stages
StageRank(msg) ==
  CASE msg.type = "limit" /\ ~msg.partial -> 1
    [] msg.type \in {"file-size", "mime-mismatch", "invalid-type"} -> 2
    [] msg.type = "duplicate" -> 3
    [] msg.type = "invalid-dimensions" -> 4
    [] msg.type = "invalid-image" -> 5
    [] msg.type = "limit" /\ msg.partial -> 6
    [] OTHER -> 0

AggregateRanks == {1, 3, 4, 5, 6}

\* The messages are in the order of the stages, with each aggregate notice at
\* most once
InStageOrder(messages) ==
  /\ \A k \in 1..Len(messages) : StageRank(messages[k]) > 0
  /\ \A k, l \in 1..Len(messages) :
       k < l => StageRank(messages[k]) <= StageRank(messages[l])
  /\ \A r \in AggregateRanks :
       Cardinality({k \in 1..Len(messages) : StageRank(messages[k]) = r}) <= 1
  /\ Cardinality({k \in 1..Len(messages) : messages[k].type = "invalid-type"}) <= 1

\* C23: the notices of every batch are flushed in the order of the stages
\* (at-limit, type stage, duplicate, invalid dimensions, corrupt, partial-limit),
\* and each aggregate notice appears at most once in a batch.
C23_StageOrder ==
  [][ lastOp' = "flush" =>
        /\ toastQueue /= <<>>
        /\ InStageOrder(Head(toastQueue))
        /\ toasts' = toasts \o Head(toastQueue) ]_vars

\* The batch with the undersized image was flushed on a Session with one free
\* slot: a duplicate notice, an invalid-dimensions notice and a partial-limit
\* notice, in that order
C23_Witness ==
  /\ lastOp = "flush"
  /\ Len(toasts) = 3
  /\ toasts[1].type = "duplicate"
  /\ toasts[2] = InvalidDimensionsMessage(1)
  /\ toasts[3].type = "limit" /\ toasts[3].partial

\* A step in which the timer callback returns before its loop
ShortCircuits == debounce /= <<>> /\ lastOp' = "timer" /\ batch'.pc = "idle"

\* The channel changes only by a flush, which delivers all the notices of the
\* oldest batch that ended, or by being emptied (toast.closeAll)
FlushedWhole ==
  toasts' /= toasts =>
    \/ toasts' = <<>>
    \/ /\ lastOp' = "flush"
       /\ toastQueue /= <<>>
       /\ toasts' = toasts \o Head(toastQueue)
       /\ toastQueue' = Tail(toastQueue)

\* Notices wait for the flush only from the end of their batch on, and stay
\* as they are until the flush
QueuedAtEnd ==
  toastQueue' /= toastQueue =>
    \/ lastOp' = "flush" /\ toastQueue /= <<>> /\ toastQueue' = Tail(toastQueue)
    \/ /\ BatchEnds \/ ShortCircuits
       /\ Len(toastQueue') = Len(toastQueue) + 1
       /\ SubSeq(toastQueue', 1, Len(toastQueue)) = toastQueue
       /\ BatchEnds => IsPrefix(batch.messages, Last(toastQueue'))

\* A batch is running, or its notices wait for the flush
Started == Validating \/ toastQueue /= <<>>

\* C24: no notice of a batch reaches the channel before the batch ended, by its
\* last validation or by a stage that returns; the notices of a batch are
\* delivered together by one flush; and every batch that started is flushed
\* in the end.
C24_FlushAfterBatch ==
  /\ [][FlushedWhole /\ QueuedAtEnd]_vars
  /\ (Started ~> (~Validating /\ toastQueue = <<>>))

\* The second batch, of an undersized and an unreadable image, has been
\* flushed: its two notices are in the channel and none is waiting
C24_Witness ==
  /\ lastOp = "flush"
  /\ nCalls = 2
  /\ toasts = <<InvalidDimensionsMessage(1), InvalidImageMessage(1)>>
  /\ toastQueue = <<>>
  /\ ~Validating

----------------------------------------------------------------------------
(* Properties of the validation loop *)

RECURSIVE IsSubsequence(_, _)
IsSubsequence(s, t) ==
  IF s = <<>> THEN TRUE
  ELSE IF t = <<>> THEN FALSE
  ELSE IF Head(s) = Head(t) THEN IsSubsequence(Tail(s), Tail(t))
  ELSE IsSubsequence(s, Tail(t))

\* The files that the loop validates are files of the batch, in its order
ValidatesInInputOrder ==
  (debounce /= <<>> /\ lastOp' = "timer" /\ batch'.pc = "validating")
    => IsSubsequence(batch'.files, Head(debounce).files)

\* At most one validation is pending: the one of the loop's position
OneValidationPending ==
  /\ Cardinality(ProbeUrls(blobUrls.live)) <= 1
  /\ Validating <=> ProbeUrls(blobUrls.live) /= {}

\* A step in which the loop goes on to its next file
NextValidationStarts == Validating /\ batch'.pc = "validating" /\ batch'.i /= batch.i

\* The records that the step adds
Added == {j \in 1..Len(images') : images'[j].url \notin HandlesOf(images)}

\* When the validation of the next file starts, the one before has ended and
\* its file, if valid, is a record of the Session
AppendedBeforeNext ==
  NextValidationStarts =>
    /\ batch'.i = batch.i + 1
    /\ ProbeUrls(blobUrls'.live) = {ProbeUrl(nCalls, batch'.i)}
    /\ Outcome(batch.files[batch.i]) = "valid"
         => \E j \in Added : images'[j].file = batch.files[batch.i]

\* A record is added only for the file at the loop's position, which lies
\* behind the files of every record this batch has added before
AddedAtPosition ==
  \A j \in Added :
    /\ Validating
    /\ images'[j].url = ImageUrl(nCalls, batch.i)
    /\ images'[j].file = batch.files[batch.i]
    /\ Outcome(batch.files[batch.i]) = "valid"
    /\ \A l \in 1..Len(images) :
         (images[l].url[1] = "image" /\ images[l].url[2] = nCalls)
           => images[l].url[3] < batch.i

\* C25: the validations of a batch do not overlap, a valid file is appended to
\* the Session before the validation of the next file starts, and the images
\* of a batch are inserted in the order the batch gave them.
C25_SequentialValidation ==
  /\ []OneValidationPending
  /\ [][ValidatesInInputOrder /\ AppendedBeforeNext /\ AddedAtPosition]_vars

\* The loop has added the first two files of a batch and waits for the decode
\* of the third
C25_Witness ==
  /\ lastOp = "onload"
  /\ Validating
  /\ batch.i = 3
  /\ {ImageUrl(nCalls, 1), ImageUrl(nCalls, 2)} \subseteq HandlesOf(images)
  /\ ProbeUrls(blobUrls.live) = {ProbeUrl(nCalls, 3)}

\* A step that ends the validation of the file at the loop's position
ValidationEnds == Validating /\ (batch'.pc = "idle" \/ batch'.i /= batch.i)

\* The count of a notice type among the notices of the batch that just ended,
\* 0 when there is none
Noticed(type) ==
  LET messages == Last(toastQueue')
      at == {k \in 1..Len(messages) : messages[k].type = type}
  IN IF at = {} THEN 0 ELSE messages[CHOOSE k \in at : TRUE].count

\* The two counters of the loop after the step
SizeCountAfter ==
  IF batch'.pc = "validating" THEN batch'.invalidSizeCount ELSE Noticed("invalid-dimensions")
ImageCountAfter ==
  IF batch'.pc = "validating" THEN batch'.invalidImageCount ELSE Noticed("invalid-image")

\* What the loop did with the outcome of the validation that ended
TookAsValid ==
  /\ Cardinality(Added) = 1
  /\ SizeCountAfter = batch.invalidSizeCount
  /\ ImageCountAfter = batch.invalidImageCount
TookAsInvalidSize ==
  /\ Added = {}
  /\ SizeCountAfter = batch.invalidSizeCount + 1
  /\ ImageCountAfter = batch.invalidImageCount
TookAsCorrupt ==
  /\ Added = {}
  /\ SizeCountAfter = batch.invalidSizeCount
  /\ ImageCountAfter = batch.invalidImageCount + 1

\* Every validation ends by one of the three events with one outcome: corrupt
\* for the timeout, for a decode failure and for a failed probe of an image of
\* admitted dimensions
OneOutcome ==
  ValidationEnds =>
    LET d == batch.files[batch.i].decode
        inBounds == /\ d.width >= IMAGE_SIZE_MIN /\ d.height >= IMAGE_SIZE_MIN
                    /\ d.width <= IMAGE_SIZE_MAX /\ d.height <= IMAGE_SIZE_MAX
    IN /\ lastOp' \in {"onload", "onerror", "timeout"}
       /\ TookAsValid \/ TookAsInvalidSize \/ TookAsCorrupt
       /\ lastOp' = "timeout" => (d.ev = "hang" /\ TookAsCorrupt)
       /\ lastOp' = "onerror" => (d.ev = "error" /\ TookAsCorrupt)
       /\ lastOp' = "onload" =>
            /\ d.ev = "load"
            /\ TookAsValid <=> (inBounds /\ d.probe)
            /\ TookAsCorrupt <=> (inBounds /\ ~d.probe)

\* A decode event that comes after the timeout changes neither the Session,
\* nor the loop and its counters, nor the notices
LateEventIgnored ==
  lastOp' = "late" => UNCHANGED <<images, batch, toastQueue, toasts, isProcessing>>

\* The validation of the k-th file of the c-th batch is pending
Pending(c, k) == Validating /\ nCalls = c /\ batch.i = k

\* C26: every validation ends, with exactly one of the outcomes valid,
\* too_small, too_large and corrupt; the timeout gives corrupt when the decode
\* has neither succeeded nor failed by then, a decode failure gives corrupt, a
\* failed 1x1 probe gives corrupt, and a decode event after the timeout does
\* not change the outcome.
C26_ValidationTerminates ==
  /\ [][OneOutcome /\ LateEventIgnored]_vars
  /\ \A c \in 1..MaxCalls : \A k \in 1..MaxSmall : Pending(c, k) ~> ~Pending(c, k)

\* The decode of a file ended after its validation had timed out and its batch
\* had been flushed: the file stays counted as unreadable and is no record
C26_Witness ==
  /\ lastOp = "late"
  /\ ~Validating
  /\ toasts = <<InvalidImageMessage(1)>>
  /\ images = <<>>

----------------------------------------------------------------------------
(* Properties of the opening of the editor *)

\* The image of the opening loads
OpensSuccessfully == opening /= Null /\ lastOp' = "open:onload"

\* The record of the Session that the editor is opened on
Target == images[CHOOSE i \in 1..Len(images) : images[i].url = currentImage[1].url]

\* s is the centered rectangle of half the extent of an image of W x H pixels,
\* with the free ratio
IsCenteredDefault(s, W, H) ==
  /\ 4 * s.x = Units(W)
  /\ 4 * s.y = Units(H)
  /\ 2 * s.width = Units(W)
  /\ 2 * s.height = Units(H)
  /\ s.aspectRatio = <<0, 1>>

\* C27: when the editor opens on an image of W x H pixels, initialCropSettings
\* is the cropSettings of that image in per-image mode and GlobalCropSettings in
\* global mode, if the store of the mode holds a value, and the centered default
\* of x = W/4, y = H/4, width = W/2, height = H/2 and aspectRatio 0 otherwise,
\* whatever the store of the other mode holds.
C27_InitialSettings ==
  [][ OpensSuccessfully =>
        LET W == Target.file.decode.width
            H == Target.file.decode.height
            stored == IF isPerImageCrop THEN Target.cropSettings ELSE globalCropSettings
        IN /\ isOpen'
           /\ originalDimensions' = Some([width |-> W, height |-> H])
           /\ initialCropSettings' /= Null
           /\ stored /= <<>> => initialCropSettings'[1] = stored[1]
           /\ stored = <<>> => IsCenteredDefault(initialCropSettings'[1], W, H) ]_vars

\* What the code keeps of C27: the stores are read as the render of the
\* openCropModal call saw them, so that initialCropSettings is as C27 says
\* whenever no handleCrop call wrote a store between that call and the load
InitialSettingsAsRequested ==
  [][ OpensSuccessfully =>
        LET o == opening[1]
            W == o.image.file.decode.width
            H == o.image.file.decode.height
            stored == IF o.isPerImageCrop THEN o.image.cropSettings ELSE o.globalCropSettings
        IN /\ isOpen'
           /\ o.isPerImageCrop = isPerImageCrop
           /\ initialCropSettings' /= Null
           /\ stored /= <<>> => initialCropSettings'[1] = stored[1]
           /\ stored = <<>> => IsCenteredDefault(initialCropSettings'[1], W, H) ]_vars

\* The openCropModal call takes the record, the mode and GlobalCropSettings of
\* its render
RequestTakesStores ==
  [][ lastOp' = "open" =>
        /\ opening' /= Null
        /\ \E i \in 1..Len(images) : opening'[1].image = images[i]
        /\ opening'[1].isPerImageCrop = isPerImageCrop
        /\ opening'[1].globalCropSettings = globalCropSettings ]_vars
\* The image of the opening fails to load
OpenFails == opening /= Null /\ lastOp' = "open:onerror"

\* The editor is not open while its image is loading
ClosedWhileOpening == opening /= Null => (~isOpen /\ ~cropper.alive)

\* C28: when the image fails to load while the editor is being opened, one
\* load-error notice of severity error is emitted, the editor is closed again
\* without having been open in between, and GlobalCropSettings and the
\* cropSettings, cropHistory and cropped flag of every record stay as they are.
C28_LoadFailure ==
  /\ []ClosedWhileOpening
  /\ [][ OpenFails =>
           /\ toasts' = Append(toasts, LoadErrorMessage)
           /\ Last(toasts').type = "load-error" /\ Last(toasts').status = "error"
           /\ ~isOpen' /\ opening' = Null /\ ~cropper'.alive
           /\ images' = images
           /\ globalCropSettings' = globalCropSettings ]_vars

\* The second opening of the editor failed after a commit of the first had
\* written both stores: the notice is shown and the editor is closed
C28_Witness ==
  /\ lastOp = "open:onerror"
  /\ nOpens = 2
  /\ toasts = <<LoadErrorMessage>>
  /\ ~isOpen /\ opening = Null
  /\ globalCropSettings /= Null
  /\ \E i \in 1..Len(images) : images[i].cropped /\ images[i].cropSettings /= NoSettings

----------------------------------------------------------------------------
(* Properties of the crop events *)

\* The surface holds r with each dimension raised to CROP_SIZE.MIN at least,
\* where it was
HoldsCorrected(r) ==
  /\ cropper'.data.x = r.x
  /\ cropper'.data.y = r.y
  /\ cropper'.data.width = (IF r.width < Units(CROP_SIZE_MIN) THEN Units(CROP_SIZE_MIN)
                            ELSE r.width)
  /\ cropper'.data.height = (IF r.height < Units(CROP_SIZE_MIN) THEN Units(CROP_SIZE_MIN)
                             ELSE r.height)

\* activeCropSettings and the store of the mode are the rounded rectangle of
\* the surface
RecordedFromSurface ==
  /\ activeCropSettings'.x = Units(Round(cropper'.data.x))
  /\ activeCropSettings'.y = Units(Round(cropper'.data.y))
  /\ activeCropSettings'.width = Units(Round(cropper'.data.width))
  /\ activeCropSettings'.height = Units(Round(cropper'.data.height))
  /\ IF isPerImageCrop
     THEN \E i \in 1..Len(images') : images'[i].cropSettings = Some(activeCropSettings')
     ELSE globalCropSettings' = Some(activeCropSettings')

\* C29: after every crop event handled while the editor is open, the surface
\* holds the reported rectangle with a width or height below 1 raised to 1 and
\* x and y as reported, the recorded settings are taken from that rectangle, and
\* their width and height are at least 1.
C29_MinimumEnforced ==
  [][ lastOp' = "cropEvent" =>
        /\ isOpen
        /\ \E r \in EventRects : HoldsCorrected(r)
        /\ RecordedFromSurface
        /\ activeCropSettings'.width >= Units(CROP_SIZE_MIN)
        /\ activeCropSettings'.height >= Units(CROP_SIZE_MIN) ]_vars

\* The crop box was dragged to 0 x 0.5 pixels at the origin: the surface holds
\* 1 x 1 there, and so do the recorded settings
C29_Witness ==
  /\ lastOp = "cropEvent"
  /\ cropper.data = [x |-> 0, y |-> 0, width |-> Units(1), height |-> Units(1)]
  /\ activeCropSettings.width = Units(1)
  /\ activeCropSettings.height = Units(1)
  /\ ~isPerImageCrop
  /\ globalCropSettings = Some(activeCropSettings)

----------------------------------------------------------------------------
(* Properties of the keystrokes in the numeric fields *)

\* A keystroke leaves the surface, the records, GlobalCropSettings and the three
\* other fields (and the ratio) as they are
KeystrokeFrame(key) ==
  /\ cropper' = cropper
  /\ images' = images
  /\ globalCropSettings' = globalCropSettings
  /\ \A other \in (Keys \cup {"aspectRatio"}) \ {key} :
       activeCropSettings'[other] = activeCropSettings[other]

\* C30: a keystroke in a numeric field makes the typed number the value of that
\* field, without any clamping, and changes neither the surface's rectangle, nor
\* the cropSettings or cropHistory of a record, nor GlobalCropSettings, nor the
\* other three fields.
C30_KeystrokeLocal ==
  [][ lastOp' = "keystroke" =>
        LET e == Last(edit'.log)
        IN /\ activeCropSettings'[e.key] = e.value
           /\ KeystrokeFrame(e.key) ]_vars

\* C30 amended: the value of the field becomes the typed number, or 9999
\* (CROP_SIZE.MAX) when the typed number is above 9999; there is no lower
\* bound and no bound by the image; nothing else changes.
C30_KeystrokeCapped ==
  [][ lastOp' = "keystroke" =>
        LET e == Last(edit'.log)
        IN /\ e.value <= Units(CROP_SIZE_MAX) => activeCropSettings'[e.key] = e.value
           /\ e.value > Units(CROP_SIZE_MAX)
                => activeCropSettings'[e.key] = Units(CROP_SIZE_MAX)
           /\ KeystrokeFrame(e.key) ]_vars

\* 20000 was typed into the width field of an editor whose surface holds a
\* rectangle of the 16 x 20 image: the field holds 9999, the surface and the
\* store of the mode hold the rectangle
C30_Witness ==
  /\ lastOp = "keystroke"
  /\ Last(edit.log).key = "width"
  /\ Last(edit.log).value = Units(20000)
  /\ activeCropSettings.width = Units(CROP_SIZE_MAX)
  /\ cropper.ready
  /\ cropper.data.width = 4 * Scale
  /\ globalCropSettings /= Null
  /\ globalCropSettings[1].width = Units(4)

----------------------------------------------------------------------------
(* Properties of the commits in the numeric fields *)

\* toActual of an entered value, with the image's and the container's extent
\* along the axis of the field
ToActual(key, value, dims) ==
  IF key \in {"x", "width"}
  THEN {Units(n) : n \in convertToActualSize(value, dims.width, Units(ContainerData.width))}
  ELSE {Units(n) : n \in convertToActualSize(value, dims.height, Units(ContainerData.height))}

\* The rectangle current with the field set to num, clamped to the image
ClampedInto(key, num, current, dims) ==
  CASE key = "x" -> [current EXCEPT !.x = Max(0, Min(Units(dims.width) - current.width, num))]
    [] key = "y" -> [current EXCEPT !.y = Max(0, Min(Units(dims.height) - current.height, num))]
    [] key = "width" ->
         [current EXCEPT !.width = Max(Units(1), Min(Units(dims.width) - current.x, num))]
    [] key = "height" ->
         [current EXCEPT !.height = Max(Units(1), Min(Units(dims.height) - current.y, num))]

\* The fields show the rectangle read back from the surface: x and y rounded,
\* width and height at the container's scale; the ratio is kept
DisplayedFromSurface(dims) ==
  /\ activeCropSettings'.x = Units(Round(cropper'.data.x))
  /\ activeCropSettings'.y = Units(Round(cropper'.data.y))
  /\ \E w \in convertToDisplaySize(cropper'.data.width, Units(dims.width), ContainerData.width) :
       activeCropSettings'.width = Units(w)
  /\ \E h \in convertToDisplaySize(cropper'.data.height, Units(dims.height),
                                     ContainerData.height) :
       activeCropSettings'.height = Units(h)
  /\ activeCropSettings'.aspectRatio = activeCropSettings.aspectRatio

\* A step that commits a number while the surface holds a crop rectangle
CommitsNumber == lastOp' = "numeric" /\ Last(edit'.log).ready

\* C31: a committed numeric edit of x, y, width or height gives the surface the
\* held rectangle with that field set to the entered value converted to image
\* space and clamped, and the fields then show the rectangle read back from the
\* surface.
C31_CommitConverts ==
  [][ CommitsNumber =>
        LET e == Last(edit'.log)
        IN /\ \E num \in ToActual(e.key, e.value, e.dims) :
                e.pushed = ClampedInto(e.key, num, e.current, e.dims)
           /\ DisplayedFromSurface(e.dims) ]_vars

\* C31 amended: the entered value is converted to image space when the field is
\* width or height; a value entered for x or y is taken as it is.  It is then
\* clamped and given to the surface, and the fields show the rectangle read
\* back from the surface.
C31_CommitConvertsExtent ==
  [][ CommitsNumber =>
        LET e == Last(edit'.log)
            nums == IF e.key \in {"width", "height"} THEN ToActual(e.key, e.value, e.dims)
                    ELSE {e.value}
        IN /\ \E num \in nums : e.pushed = ClampedInto(e.key, num, e.current, e.dims)
           /\ DisplayedFromSurface(e.dims) ]_vars

\* 2.5 was committed as the x of the centered rectangle of the 16 x 20 image:
\* the surface was given x = 2.5, holds it, and the field shows 3
C31_Witness ==
  /\ lastOp = "numeric"
  /\ Last(edit.log).ready
  /\ Last(edit.log).key = "x"
  /\ Last(edit.log).value = 2 * Scale + 1
  /\ Last(edit.log).current.width = Units(8)
  /\ Last(edit.log).pushed.x = 2 * Scale + 1
  /\ cropper.data.x = 2 * Scale + 1
  /\ activeCropSettings.x = Units(3)

----------------------------------------------------------------------------
(* Properties of the aspect-ratio selector *)

\* A change of the selector in an editor that has its surface
AspectStep == lastOp' = "aspect" /\ cropper.alive

\* s keeps x, y and width of the rectangle cur and has the ratio r; its height
\* is width / r (to the resolution of 1/Scale pixel) under a ratio, and the
\* height of cur under the free ratio
Reapplied(s, cur, r) ==
  /\ s.x = cur.x
  /\ s.y = cur.y
  /\ s.width = cur.width
  /\ s.aspectRatio = r
  /\ IF r[1] > 0
     THEN r[1] * s.height <= cur.width * r[2] /\ cur.width * r[2] < r[1] * (s.height + 1)
     ELSE s.height = cur.height

\* The store of the mode after the step: the cropSettings of the record the
\* editor is open on, or globalCropSettings
ModeStoreAfter ==
  IF isPerImageCrop
  THEN LET i == CHOOSE i \in 1..Len(images') : images'[i].url = currentImage[1].url
       IN images'[i].cropSettings
  ELSE globalCropSettings'

\* C32: a change of the selector to the ratio r gives the surface the rectangle
\* that keeps the current x, y and width, with height = width / r when r > 0 and
\* the current height when r = 0; the settings of that rectangle with
\* aspectRatio = r are written to the cropSettings of the image in per-image
\* mode and to GlobalCropSettings in global mode, and the store of the other
\* mode is left as it is.
C32_AspectChange ==
  [][ AspectStep =>
        LET cur == GetData(cropper)
            r == getAspectRatioFromSelection(selectedAspectRatio', originalDimensions)
        IN /\ ModeStoreAfter /= Null
           /\ Reapplied(ModeStoreAfter[1], cur, r)
           /\ activeCropSettings' = ModeStoreAfter[1]
           /\ cropper'.aspectRatio = r
           /\ (cropper.ready /\ WithinImage(ModeStoreAfter[1], originalDimensions[1]))
                => Rect(cropper'.data) = Rect(ModeStoreAfter[1])
           /\ OtherStoreKept ]_vars

\* The selector was set to 1:1 in per-image mode while the surface held the 8 x
\* 10 rectangle at (4, 5) of the 16 x 20 image, after a commit had set
\* GlobalCropSettings: the record and the surface hold 8 x 8 at (4, 5), and
\* GlobalCropSettings holds the rectangle of the commit
C32_Witness ==
  /\ lastOp = "aspect"
  /\ isPerImageCrop
  /\ nCrops > 0
  /\ selectedAspectRatio = "1:1"
  /\ Last(edit.log).current = [x |-> Units(4), y |-> Units(5), width |-> Units(8),
                               height |-> Units(10)]
  /\ images[1].cropSettings =
       Some([x |-> Units(4), y |-> Units(5), width |-> Units(8), height |-> Units(8),
             aspectRatio |-> <<1, 1>>])
  /\ cropper.data.height = Units(8)
  /\ globalCropSettings /= Null
  /\ globalCropSettings[1].height = Units(10)

----------------------------------------------------------------------------
(* Properties of the canvas geometry of a record *)

\* The records of the image of the commit hold the geometry of the surface
CanvasStored ==
  \A i \in 1..Len(images') :
    images'[i].id = crop[1].image.id => images'[i].canvasData = Some(cropper.canvasData)

\* C33: every successful commit, through the file picker and through the
\* download, stores the canvas geometry of the surface on the record of the
\* committed image.
C33_CommitStoresCanvas == [][SaveStep => CanvasStored]_vars

\* C33 (reuse): a surface that becomes ready on a record that holds a canvas
\* geometry is given that geometry.
StoredCanvasReused ==
  [][ (lastOp' = "ready" /\ currentImage[1].canvasData /= NoCanvasData)
        => cropper'.canvasData = currentImage[1].canvasData[1] ]_vars

----------------------------------------------------------------------------
(* Properties of the cancel *)

\* A cancel of an editor whose surface holds a crop rectangle
CancelStep == lastOp' = "cancel" /\ cropper.alive /\ cropper.ready /\ currentImage /= Null

\* Two ratios are the same number
SameRatio(a, b) == IF a[2] = 0 \/ b[2] = 0 THEN a = b ELSE a[1] * b[2] = b[1] * a[2]

\* s holds the rectangle of the surface and the ratio
HoldsSurface(s, ratio) ==
  /\ Rect(s) = GetData(cropper)
  /\ SameRatio(s.aspectRatio, ratio)

\* No record gets a cropHistory entry or the cropped flag
NoCommitTrace ==
  /\ Len(images') = Len(images)
  /\ \A i \in 1..Len(images) :
       \E j \in 1..Len(images') :
         /\ images'[j].url = images[i].url
         /\ images'[j].cropHistory = images[i].cropHistory
         /\ images'[j].cropped = images[i].cropped

\* C34: a cancel with save-on-cancel set writes the rectangle of the surface to
\* the store of the mode with the aspect ratio that a commit made at that moment
\* would write there (the active aspect ratio), appends to no cropHistory and
\* sets no cropped flag.
C34_CancelSavesAsCommit ==
  [][ (CancelStep /\ saveOnCancel) =>
        /\ ModeStoreAfter /= Null
        /\ HoldsSurface(ModeStoreAfter[1], activeCropSettings.aspectRatio)
        /\ NoCommitTrace ]_vars

\* C34 (as coded): the cancel writes the rectangle of the surface with the ratio
\* of the selector to the store of the mode, leaves the other store, and leaves
\* no trace of a commit.
CancelSavesSelection ==
  [][ (CancelStep /\ saveOnCancel) =>
        /\ ModeStoreAfter /= Null
        /\ HoldsSurface(ModeStoreAfter[1],
                        getAspectRatioFromSelection(selectedAspectRatio, originalDimensions))
        /\ OtherStoreKept
        /\ NoCommitTrace ]_vars

\* A cancel with save-on-cancel not set, of an editor that has its surface
DiscardStep == lastOp' = "cancel" /\ cropper.alive /\ currentImage /= Null /\ ~saveOnCancel

\* The record the editor is open on holds neither settings nor canvas geometry
\* after the step, and GlobalCropSettings is left as it is
RecordCleared ==
  /\ \A j \in 1..Len(images') :
       images'[j].id = currentImage[1].id =>
         images'[j].cropSettings = NoSettings /\ images'[j].canvasData = NoCanvasData
  /\ \E j \in 1..Len(images') : images'[j].id = currentImage[1].id
  /\ globalCropSettings' = globalCropSettings

\* An opening in per-image mode on a record without settings starts from the
\* centered default
ClearedOpensDefault ==
  (/\ OpensSuccessfully
   /\ opening[1].isPerImageCrop
   /\ opening[1].image.cropSettings = NoSettings)
  => /\ initialCropSettings' /= Null
     /\ IsCenteredDefault(initialCropSettings'[1], opening[1].image.file.decode.width,
                          opening[1].image.file.decode.height)

\* C35: a cancel with save-on-cancel not set clears the cropSettings and the
\* canvas geometry of the image in per-image mode, so that an opening of that
\* record in per-image mode starts from the centered default; in global mode it
\* leaves GlobalCropSettings and every record as they were.
C35_CancelDiscards ==
  [][ /\ (DiscardStep /\ isPerImageCrop) => RecordCleared
      /\ ClearedOpensDefault
      /\ (DiscardStep /\ ~isPerImageCrop) =>
           images' = images /\ globalCropSettings' = globalCropSettings ]_vars

\* An image was committed through the file picker, opened again in per-image
\* mode and cancelled without save-on-cancel: the record holds its cropHistory
\* entry and neither settings nor canvas geometry
C35_Witness ==
  /\ lastOp = "cancel"
  /\ isPerImageCrop
  /\ ~saveOnCancel
  /\ nOpens = 2
  /\ Len(images) = 1
  /\ images[1].cropped
  /\ Len(images[1].cropHistory) = 1
  /\ images[1].cropSettings = NoSettings
  /\ images[1].canvasData = NoCanvasData
  /\ globalCropSettings /= Null

----------------------------------------------------------------------------
(* Properties of the teardown of the crop surface *)

\* The steps that leave the editor: a commit that saved, a commit whose save
\* failed, a cancel, and the dismissal of the Modal
Exits == {"crop:saved", "crop:failed", "cancel", "dismiss"}

\* The editor closes only by one of the exits, and is then without a surface
ExitDestroys ==
  /\ (isOpen /\ ~isOpen') => (lastOp' \in Exits /\ cropper' = NoCropper)
  /\ ~isOpen' => ~cropper'.alive

\* An event of the surface that is handled with the surface gone changes
\* neither the active settings nor a store
IgnoredChangesNothing ==
  (\E handler \in SurfaceHandlers : lastOp' = handler \o ":ignored")
  => /\ activeCropSettings' = activeCropSettings
     /\ images' = images
     /\ globalCropSettings' = globalCropSettings
     /\ cropper' = cropper

----------------------------------------------------------------------------
(* Properties of the cropHistory entries *)

\* The cropHistory entries of the Session, each with the size of its image
HistoryEntries ==
  UNION {{[entry |-> images[i].cropHistory[k], dims |-> NaturalSize(images[i])] :
            k \in 1..Len(images[i].cropHistory)} : i \in 1..Len(images)}

\* C37: every cropHistory entry, in whole pixels, has 0 <= x, 0 <= y, x + width
\* <= imageWidth, y + height <= imageHeight, width >= 1 and height >= 1, for the
\* fractional rectangles within the image that the surface reports.
C37_HistoryWithinImage ==
  \A e \in HistoryEntries :
    /\ 0 <= e.entry.x
    /\ 0 <= e.entry.y
    /\ e.entry.x + e.entry.width <= e.dims.width
    /\ e.entry.y + e.entry.height <= e.dims.height
    /\ e.entry.width >= 1
    /\ e.entry.height >= 1

\* C37 (as coded): an entry appended while the surface holds a rectangle within
\* the image has each field within half a pixel of the surface's: x and y are
\* not negative, width and height are at least 1, and the far edges pass the
\* image by one pixel at most.
HistoryWithinOne ==
  [][ (SaveStep /\ SurfaceHeld) =>
        \A i \in 1..Len(images') :
          (images'[i].id = crop[1].image.id
             /\ WithinImage(cropper.data, NaturalSize(images'[i]))) =>
            LET e == Last(images'[i].cropHistory)
                dims == NaturalSize(images'[i])
            IN /\ e = HistoryEntry(cropper.data)
               /\ 0 <= e.x /\ 0 <= e.y /\ e.width >= 1 /\ e.height >= 1
               /\ e.x + e.width <= dims.width + 1
               /\ e.y + e.height <= dims.height + 1 ]_vars

\* A commit of the rectangle of 15.5 pixels width at x = 0.5 of the 16 pixels
\* wide image: the entry has x = 1 and width = 16
RoundedPastEdge ==
  /\ lastOp = "crop:saved"
  /\ \E e \in HistoryEntries :
       e.entry.x = 1 /\ e.entry.width = 16 /\ e.dims.width = 16

----------------------------------------------------------------------------
(* Properties of the stored aspect ratio *)

\* Settings whose aspectRatio is a positive number have width / height equal to
\* it, to the resolution of 1/Scale pixel
RatioHolds(s) ==
  (s.aspectRatio[1] > 0 /\ s.aspectRatio[2] > 0) =>
    Abs(s.width * s.aspectRatio[2] - s.height * s.aspectRatio[1])
      < Max(s.aspectRatio[1], s.aspectRatio[2])

\* The settings that the step leaves in the cropSettings of the records with
\* the given id, and in GlobalCropSettings
RecordSettingsAfter(id) ==
  {images'[i].cropSettings[1] :
     i \in {j \in 1..Len(images') : images'[j].id = id /\ images'[j].cropSettings /= NoSettings}}

GlobalSettingsAfter ==
  IF globalCropSettings' /= Null THEN {globalCropSettings'[1]} ELSE {}

\* The settings that a step of the editor writes by itself: the store of the
\* mode at the ready event, at a change of the selector and at a cancel with
\* save-on-cancel, both stores at a commit
WrittenBySet ==
  CASE lastOp' \in {"ready", "aspect"} \/ (lastOp' = "cancel" /\ saveOnCancel /\ cropper.alive) ->
         IF isPerImageCrop THEN RecordSettingsAfter(currentImage[1].id)
         ELSE GlobalSettingsAfter
    [] lastOp' \in {"crop:saved", "crop:failed"} /\ crop /= Null ->
         RecordSettingsAfter(crop[1].image.id) \cup GlobalSettingsAfter
    [] OTHER -> {}

\* C38: the settings that the ready event, a change of the selector, a commit
\* (also one that follows a numeric commit) and a cancel with save-on-cancel
\* write to a store have width / height equal to their aspectRatio whenever
\* that aspectRatio is above 0.
C38_RatioKept == [][\A s \in WrittenBySet : RatioHolds(s)]_vars

\* C38 (selector): the settings written at a change of the selector have the
\* ratio of the selector.
SelectorSetKeepsRatio ==
  [][lastOp' = "aspect" => \A s \in WrittenBySet : RatioHolds(s)]_vars

\* Width 0 was committed in the width field of an editor that held the 8 x 10
\* rectangle, and the image was then committed: the record holds 1 x 10 with
\* the ratio 8 / 10 of the ready event
StaleRatioCommitted ==
  /\ lastOp = "crop:saved"
  /\ nOpens = 1
  /\ nCrops = 1
  /\ edit.n = 1
  /\ Len(images) = 1
  /\ images[1].cropSettings /= NoSettings
  /\ images[1].cropSettings[1].width = Units(1)
  /\ images[1].cropSettings[1].height = Units(10)
  /\ images[1].cropSettings[1].aspectRatio = <<Units(8), Units(10)>>

----------------------------------------------------------------------------
(* Properties of the cropped flag *)

\* Every record is flagged as cropped exactly when it has a cropHistory entry
CroppedIffHistory ==
  \A i \in 1..Len(images) : images[i].cropped <=> images[i].cropHistory /= <<>>

\* A record that is flagged as cropped and stays in the Session stays flagged
CroppedStays ==
  \A i \in 1..Len(images), j \in 1..Len(images') :
    (SameRecord(i, j) /\ images[i].cropped) => images'[j].cropped

\* C39: in every state every record has cropped set exactly when its
\* cropHistory is not empty, and a record that has cropped set keeps it for as
\* long as it is in the Session.
C39_CroppedIffHistory == []CroppedIffHistory /\ [][CroppedStays]_vars

\* Of the two records of a Session one was committed, opened again and
\* cancelled without save-on-cancel, and the other was deleted: the record has
\* its flag and its entry and no settings
C39_Witness ==
  /\ lastOp = "delete"
  /\ Len(images) = 1
  /\ nCrops = 1
  /\ nOpens = 2
  /\ images[1].cropped
  /\ Len(images[1].cropHistory) = 1
  /\ images[1].cropSettings = NoSettings
  /\ images[1].canvasData = NoCanvasData

----------------------------------------------------------------------------
(* Properties of the busy flag                                             *)

\* The FADE_OUT timer has cleared the flag, and the notices its batch left for
\* the toast timer are msgs
ClearedWith(msgs) == lastOp = "fade" /\ ~isProcessing /\ toastQueue = <<msgs>>

\* The four ends of the timer callback (lines 711-716, 740-746, 753-759,
\* 826-827), each followed by the clearing of the flag
AtLimitCleared ==
  /\ Len(images) = MAX_IMAGES
  /\ \E n \in 1..MAX_IMAGES : ClearedWith(<<AtLimitMessage(n)>>)
TypeRejectedCleared ==
  ClearedWith(TypeMessages(FilteredBatch) \o <<InvalidTypeMessage(Len(FilteredBatch))>>)
DuplicateCleared == Len(images) = 1 /\ ClearedWith(<<DuplicateMessage(1)>>)
CompletedCleared == Len(images) = 1 /\ ClearedWith(<<>>)

\* processFiles on an empty list, whatever the render it was created in saw,
\* returns the state it was called in
EmptyCallKeeps ==
  \A busy \in BOOLEAN :
    ProcessFilesCall(CallState, <<>>, [Closure EXCEPT !.isProcessing = busy]) = CallState

\* A call that was not accepted while the flag was clear: its list was empty
EmptyCallStep == ~isProcessing /\ lastOp' = "processFiles:dropped"

\* C40: once the busy flag is set it is cleared again, whichever end the timer
\* callback takes, given that the timers fire and each validation resolves; and
\* a call of processFiles with an empty list leaves the busy flag, the
\* reference to the timer and the pending timer as they are.
C40_BusyCleared ==
  /\ isProcessing ~> ~isProcessing
  /\ []EmptyCallKeeps
  /\ [][EmptyCallStep => UNCHANGED <<isProcessing, processingTimeoutRef, debounce>>]_vars

\* The flag was cleared after a batch that met a full session
C40_Witness == AtLimitCleared

============================================================================
